---- MODULE Spec2Model ----
(***************************************************************************)
(* Track / artist normalisation and upsert logic of the pack scripts       *)
(* (scripts/utils/db.py and the two enrichment writers), as a state        *)
(* machine over the relational store: packs, tracks, artists,              *)
(* track_artists, pack_tracks.                                             *)
(*                                                                         *)
(* Conventions.  A nullable column or an optional dict key is a sequence   *)
(* of length 0 (NULL / None) or 1 (<<v>>).  Artist names and the legacy    *)
(* 'artist' string are sequences of one-character strings, so that         *)
(* lower(), split(',') and strip() are computed character by character.    *)
(* Row identifiers (uuid) of tracks and artists are drawn from the counter  *)
(* nextId, those of packs are numbered on their own.  The created_at /     *)
(* updated_at timestamps are not modelled.                                 *)
(***************************************************************************)
EXTENDS Integers, Sequences, FiniteSets, TLC

VARIABLES
    packs,          \* table packs:         set of [id, name]
    tracks,         \* table tracks:        set of track rows
    artists,        \* table artists:       set of artist rows
    track_artists,  \* table track_artists: set of [track_id, artist_id, position]
    pack_tracks,    \* table pack_tracks:   set of [pack_id, track_id, position]
    nextId,         \* next fresh track / artist identifier
    ops,            \* number of write operations run so far
    last,           \* the most recent call: operation, arguments, outcome
    pre,            \* the committed store as it was when that call started
    added           \* history: the <<pack_id, spotify_id>> pairs of the calls that returned

vars == <<packs, tracks, artists, track_artists, pack_tracks, nextId, ops, last, pre, added>>

store == [packs |-> packs, tracks |-> tracks, artists |-> artists,
          track_artists |-> track_artists, pack_tracks |-> pack_tracks]

(***************************************************************************)
(* Bounds of the model.                                                    *)
(***************************************************************************)
MaxOps == 2     \* write operations (other than create_pack) per behaviour
MaxPacks == 2   \* packs created per behaviour
MaxBatch == 2   \* tracks per add_tracks_to_pack batch
MaxResults == 2 \* items of one catalog search result
MaxIds == 52    \* track identifiers of one metadata request
MaxLines == 3   \* lines after the header of a video description
MaxEntries == 2 \* entries of one search_tracks_batch list

(***************************************************************************)
(* Values.                                                                 *)
(***************************************************************************)
NULL == <<>>

COALESCE(a, b) == IF a # NULL THEN a ELSE b

\* a required key (a string) that the payload dict does not have
Absent == "<no such key>"

OptFields == {"album_name", "album_image_url", "release_year",
              "spotify_popularity", "isrc"}

\* str.lower() / SQL LOWER(), on one character
LowerChar(c) ==
    CASE c = "B" -> "b"
      [] c = "M" -> "m"
      [] c = "U" -> "u"
      [] c = "A" -> "a"
      [] c = "T" -> "t"
      [] c = "W" -> "w"
      [] c = "S" -> "s"
      [] c = "L" -> "l"
      [] c = "Y" -> "y"
      [] OTHER -> c

Lower(s) == [i \in 1..Len(s) |-> LowerChar(s[i])]

IsSpace(c) == c \in {" ", "\n", "\t"}

\* str.strip()
RECURSIVE LStrip(_)
LStrip(s) == IF s # <<>> /\ IsSpace(Head(s)) THEN LStrip(Tail(s)) ELSE s

RECURSIVE RStrip(_)
RStrip(s) ==
    IF s # <<>> /\ IsSpace(s[Len(s)]) THEN RStrip(SubSeq(s, 1, Len(s) - 1)) ELSE s

Strip(s) == RStrip(LStrip(s))

\* str.split(','): the pieces between commas, empty pieces included
RECURSIVE SplitFrom(_, _, _)
SplitFrom(s, cur, acc) ==
    IF s = <<>> THEN Append(acc, cur)
    ELSE IF Head(s) = "," THEN SplitFrom(Tail(s), <<>>, Append(acc, cur))
    ELSE SplitFrom(Tail(s), Append(cur, Head(s)), acc)

SplitComma(s) == SplitFrom(s, <<>>, <<>>)

RECURSIVE SelectNonEmpty(_)
SelectNonEmpty(ss) ==
    IF ss = <<>> THEN <<>>
    ELSE IF Head(ss) # <<>> THEN <<Head(ss)>> \o SelectNonEmpty(Tail(ss))
    ELSE SelectNonEmpty(Tail(ss))

\* [name.strip() for name in s.split(',') if name.strip()]
LegacyNames(s) ==
    LET parts == SplitComma(s)
    IN  SelectNonEmpty([i \in 1..Len(parts) |-> Strip(parts[i])])

Min(a, b) == IF a < b THEN a ELSE b

HasDuplicates(s) == \E i, j \in DOMAIN s : i < j /\ s[i] = s[j]

\* first occurrences of a sequence, in order (the insertion order of a dict)
RECURSIVE DistinctFrom(_, _)
DistinctFrom(s, acc) ==
    IF s = <<>> THEN acc
    ELSE IF \E i \in DOMAIN acc : acc[i] = Head(s)
         THEN DistinctFrom(Tail(s), acc)
         ELSE DistinctFrom(Tail(s), Append(acc, Head(s)))

RECURSIVE Flatten(_)
Flatten(ss) == IF ss = <<>> THEN <<>> ELSE Head(ss) \o Flatten(Tail(ss))

RECURSIVE SelectSeq2(_, _)
SelectSeq2(s, keep) ==
    IF s = <<>> THEN <<>>
    ELSE IF Head(s) \in keep THEN <<Head(s)>> \o SelectSeq2(Tail(s), keep)
    ELSE SelectSeq2(Tail(s), keep)

(***************************************************************************)
(* add_tracks_to_pack, step 1: upsert the tracks by spotify_id.            *)
(***************************************************************************)
NewTrack(id, p) ==
    [id |-> id, spotify_id |-> p.spotify_id, title |-> p.title,
     album_name |-> p.album_name, album_image_url |-> p.album_image_url,
     release_year |-> p.release_year,
     spotify_popularity |-> p.spotify_popularity, isrc |-> p.isrc]

\* variant: the stored value wins over the incoming one (arguments of COALESCE swapped)
MergeTrackKeepStored(t, p) ==
    [t EXCEPT !.title = p.title,
              !.album_name = COALESCE(t.album_name, p.album_name),
              !.album_image_url = COALESCE(t.album_image_url, p.album_image_url),
              !.release_year = COALESCE(t.release_year, p.release_year),
              !.spotify_popularity = COALESCE(t.spotify_popularity, p.spotify_popularity),
              !.isrc = COALESCE(t.isrc, p.isrc)]

\* variant: release_year = EXCLUDED.release_year, without COALESCE
MergeTrackClobber(t, p) ==
    [t EXCEPT !.title = p.title,
              !.album_name = COALESCE(p.album_name, t.album_name),
              !.album_image_url = COALESCE(p.album_image_url, t.album_image_url),
              !.release_year = p.release_year,
              !.spotify_popularity = COALESCE(p.spotify_popularity, t.spotify_popularity),
              !.isrc = COALESCE(p.isrc, t.isrc)]

\* ON CONFLICT (spotify_id) DO UPDATE SET ...
MergeTrack(t, p) ==
    [t EXCEPT !.title = p.title,
              !.album_name = COALESCE(p.album_name, t.album_name),
              !.album_image_url = COALESCE(p.album_image_url, t.album_image_url),
              !.release_year = COALESCE(p.release_year, t.release_year),
              !.spotify_popularity = COALESCE(p.spotify_popularity, t.spotify_popularity),
              !.isrc = COALESCE(p.isrc, t.isrc)]

\* one INSERT ... ON CONFLICT DO UPDATE statement may not touch a row twice
TrackUpsertFails(batch) ==
    HasDuplicates([i \in 1..Len(batch) |-> batch[i].spotify_id])

RECURSIVE UpsertTracks(_, _, _)
UpsertTracks(rows, batch, id) ==
    IF batch = <<>> THEN [rows |-> rows, next |-> id]
    ELSE LET p == Head(batch)
             old == {t \in rows : t.spotify_id = p.spotify_id}
         IN  IF old # {}
             THEN UpsertTracks((rows \ old) \cup {MergeTrack(t, p) : t \in old},
                               Tail(batch), id)
             ELSE UpsertTracks(rows \cup {NewTrack(id, p)}, Tail(batch), id + 1)

(***************************************************************************)
(* Step 2: the distinct (spotify_artist_id, name) keys of the batch.       *)
(***************************************************************************)
Key(sid, name) == [sid |-> sid, name |-> name]

\* the keys one track contributes to all_artists
CollectedKeys(p) ==
    IF p.form = "arrays"
    THEN [i \in 1..Len(p.artist_names) |->
            Key(IF i <= Len(p.artist_ids) THEN p.artist_ids[i] ELSE NULL,
                p.artist_names[i])]
    ELSE IF p.form = "legacy"
    THEN LET names == LegacyNames(p.artist)
         IN  [i \in 1..Len(names) |-> Key(NULL, names[i])]
    ELSE <<>>

all_artists(batch) ==
    DistinctFrom(Flatten([i \in 1..Len(batch) |-> CollectedKeys(batch[i])]), <<>>)

(***************************************************************************)
(* Step 3: upsert the artists.                                             *)
(***************************************************************************)
NewArtist(id, sid, name) ==
    [id |-> id, spotify_artist_id |-> sid, name |-> name,
     genres |-> <<>>, spotify_followers |-> NULL, image_url |-> NULL]

\* variant: name = COALESCE(artists.name, EXCLUDED.name)
MergeArtistKeepName(a, k) == [a EXCEPT !.name = COALESCE(<<a.name>>, <<k.name>>)[1]]

\* ON CONFLICT (spotify_artist_id) DO UPDATE SET name = COALESCE(EXCLUDED.name, artists.name)
MergeArtist(a, k) == [a EXCEPT !.name = COALESCE(<<k.name>>, <<a.name>>)[1]]

WithId(keys) == SelectSeq2(keys, {k \in {keys[i] : i \in DOMAIN keys} : k.sid # NULL})

NameOnly(keys) == SelectSeq2(keys, {k \in {keys[i] : i \in DOMAIN keys} : k.sid = NULL})

ArtistUpsertFails(keys) ==
    LET w == WithId(keys)
    IN  HasDuplicates([i \in 1..Len(w) |-> w[i].sid])

RECURSIVE UpsertArtists(_, _, _)
UpsertArtists(rows, keys, id) ==
    IF keys = <<>> THEN [rows |-> rows, next |-> id]
    ELSE LET k == Head(keys)
             old == {a \in rows : a.spotify_artist_id = k.sid}
         IN  IF old # {}
             THEN UpsertArtists((rows \ old) \cup {MergeArtist(a, k) : a \in old},
                                Tail(keys), id)
             ELSE UpsertArtists(rows \cup {NewArtist(id, k.sid, k.name)},
                                Tail(keys), id + 1)

\* INSERT INTO artists (name) ... ON CONFLICT DO NOTHING: the only unique
\* column is spotify_artist_id, which these rows leave NULL
RECURSIVE InsertNameOnly(_, _, _)
InsertNameOnly(rows, keys, id) ==
    IF keys = <<>> THEN [rows |-> rows, next |-> id]
    ELSE InsertNameOnly(rows \cup {NewArtist(id, NULL, Head(keys).name)},
                        Tail(keys), id + 1)

(***************************************************************************)
(* Step 4: the artist lookup.                                              *)
(***************************************************************************)
\* SELECT ... WHERE spotify_artist_id = ANY(ids) OR LOWER(name) = ANY(names)
LookupRows(rows, keys) ==
    LET ks == {keys[i] : i \in DOMAIN keys}
        ids == {k.sid : k \in {k \in ks : k.sid # NULL}}
        names == {Lower(k.name) : k \in ks}
    IN  {a \in rows : a.spotify_artist_id \in ids \/ Lower(a.name) \in names}

\* The SELECT has no ORDER BY and a later row overwrites an earlier one under
\* the same (None, lowercase name) key: any row of that name may be the last.
NameIndexes(rows) ==
    LET names == {Lower(a.name) : a \in rows}
    IN  {f \in [names -> {a.id : a \in rows}] :
            \A n \in names : \E a \in rows : a.id = f[n] /\ Lower(a.name) = n}

artist_lookup(rows, byName) ==
    LET keysById == {Key(a.spotify_artist_id, a.name) :
                        a \in {a \in rows : a.spotify_artist_id # NULL}}
        keysByName == {Key(NULL, n) : n \in DOMAIN byName}
    IN  [k \in keysById \cup keysByName |->
            IF k.sid # NULL
            THEN (CHOOSE a \in rows : a.spotify_artist_id = k.sid).id
            ELSE byName[k.name]]

(***************************************************************************)
(* Step 5: the track id lookup.                                            *)
(***************************************************************************)
\* variant: the internal id is taken to be the payload's place in the batch,
\* without reading the tracks table
track_id_lookup_unread(rows, batch) ==
    [s \in {batch[i].spotify_id : i \in DOMAIN batch} |->
        CHOOSE i \in DOMAIN batch : batch[i].spotify_id = s]
track_id_lookup(rows, batch) ==
    LET ids == {batch[i].spotify_id : i \in DOMAIN batch}
        hit == {t \in rows : t.spotify_id \in ids}
    IN  [s \in {t.spotify_id : t \in hit} |->
            (CHOOSE t \in hit : t.spotify_id = s).id]

(***************************************************************************)
(* Step 6: the track_artists rows.                                         *)
(***************************************************************************)
\* list(zip(artist_ids, artist_names)), or the stripped legacy names
ArtistList(p) ==
    IF p.form = "arrays"
    THEN [i \in 1..Min(Len(p.artist_ids), Len(p.artist_names)) |->
            Key(p.artist_ids[i], p.artist_names[i])]
    ELSE IF p.form = "legacy"
    THEN LET names == LegacyNames(p.artist)
         IN  [i \in 1..Len(names) |-> Key(NULL, names[i])]
    ELSE <<>>

\* variant: the case-insensitive name index is consulted first
ResolveByNameFirst(lookup, k) ==
    IF Key(NULL, Lower(k.name)) \in DOMAIN lookup
    THEN <<lookup[Key(NULL, Lower(k.name))]>>
    ELSE IF k \in DOMAIN lookup THEN <<lookup[k]>>
    ELSE NULL
\* artist_lookup.get((sid, name)) or artist_lookup.get((None, name.lower()))
Resolve(lookup, k) ==
    IF k \in DOMAIN lookup THEN <<lookup[k]>>
    ELSE IF Key(NULL, Lower(k.name)) \in DOMAIN lookup
    THEN <<lookup[Key(NULL, Lower(k.name))]>>
    ELSE NULL

RECURSIVE TrackArtistRows(_, _, _, _)
TrackArtistRows(track_id, list, position, lookup) ==
    IF list = <<>> THEN <<>>
    ELSE LET a == Resolve(lookup, Head(list))
             rest == TrackArtistRows(track_id, Tail(list), position + 1, lookup)
         IN  IF a # NULL
             THEN <<[track_id |-> track_id, artist_id |-> a[1],
                     position |-> position]>> \o rest
             ELSE rest

track_artist_values(batch, tlookup, lookup) ==
    Flatten([i \in 1..Len(batch) |->
        IF batch[i].spotify_id \in DOMAIN tlookup
        THEN TrackArtistRows(tlookup[batch[i].spotify_id], ArtistList(batch[i]),
                             1, lookup)
        ELSE <<>>])

\* variant: ON CONFLICT (track_id, artist_id) DO UPDATE SET position = EXCLUDED.position
RECURSIVE InsertTrackArtistsRenumber(_, _)
InsertTrackArtistsRenumber(rows, values) ==
    IF values = <<>> THEN rows
    ELSE LET v == Head(values)
             old == {r \in rows : r.track_id = v.track_id /\ r.artist_id = v.artist_id}
         IN  InsertTrackArtistsRenumber((rows \ old) \cup {v}, Tail(values))

\* INSERT ... ON CONFLICT (track_id, artist_id) DO NOTHING
RECURSIVE InsertTrackArtists(_, _)
InsertTrackArtists(rows, values) ==
    IF values = <<>> THEN rows
    ELSE LET v == Head(values)
         IN  IF \E r \in rows : r.track_id = v.track_id /\ r.artist_id = v.artist_id
             THEN InsertTrackArtists(rows, Tail(values))
             ELSE InsertTrackArtists(rows \cup {v}, Tail(values))

(***************************************************************************)
(* Step 7: the pack_tracks rows.                                           *)
(***************************************************************************)
\* variant: the position is the 0-based index of enumerate()
link_values_from_zero(pack_id, batch, tlookup) ==
    LET all == [i \in 1..Len(batch) |->
                   IF batch[i].spotify_id \in DOMAIN tlookup
                   THEN <<[pack_id |-> pack_id,
                           track_id |-> tlookup[batch[i].spotify_id],
                           position |-> i - 1]>>
                   ELSE <<>>]
    IN  Flatten(all)
link_values(pack_id, batch, tlookup) ==
    LET all == [i \in 1..Len(batch) |->
                   IF batch[i].spotify_id \in DOMAIN tlookup
                   THEN <<[pack_id |-> pack_id,
                           track_id |-> tlookup[batch[i].spotify_id],
                           position |-> i]>>
                   ELSE <<>>]
    IN  Flatten(all)

\* variant: the rows of the packs written to are deleted first
InsertPackTracksReplacing(rows, values) ==
    {r \in rows : \A i \in DOMAIN values : values[i].pack_id # r.pack_id}
        \cup {values[i] : i \in DOMAIN values}

\* variant: a plain INSERT into a table without the (pack_id, track_id) key
RECURSIVE InsertPackTracksPlain(_, _)
InsertPackTracksPlain(rows, values) ==
    IF values = <<>> THEN rows
    ELSE InsertPackTracksPlain(rows \cup {Head(values)}, Tail(values))

\* INSERT ... ON CONFLICT (pack_id, track_id) DO NOTHING
RECURSIVE InsertPackTracks(_, _)
InsertPackTracks(rows, values) ==
    IF values = <<>> THEN rows
    ELSE LET v == Head(values)
         IN  IF \E r \in rows : r.pack_id = v.pack_id /\ r.track_id = v.track_id
             THEN InsertPackTracks(rows, Tail(values))
             ELSE InsertPackTracks(rows \cup {v}, Tail(values))

(***************************************************************************)
(* Inputs.                                                                 *)
(***************************************************************************)
Bob == <<"B", "o", "b">>
bob == <<"b", "o", "b">>
BobAndBob == Bob \o <<",", " ">> \o bob     \* the legacy string "Bob, bob"

NoMeta == [f \in OptFields |-> NULL]

Payload(sid, title, meta, form, ids, names, artist) ==
    [spotify_id |-> sid, title |-> title,      \* Absent: the dict has no such key
     album_name |-> meta["album_name"],
     album_image_url |-> meta["album_image_url"],
     release_year |-> meta["release_year"],
     spotify_popularity |-> meta["spotify_popularity"],
     isrc |-> meta["isrc"],
     form |-> form, artist_ids |-> ids, artist_names |-> names, artist |-> artist]

\* payloads that differ in their artists
LinkPayloads ==
    { Payload("t1", "Song", NoMeta, "arrays", << <<"A1">> >>, <<Bob>>, <<>>),
      Payload("t1", "Song", NoMeta, "arrays", << <<"A2">>, <<"A1">> >>, <<Bob, bob>>, <<>>),
      Payload("t1", "Song", NoMeta, "arrays", << NULL >>, <<Bob>>, <<>>),
      Payload("t2", "Tune", NoMeta, "legacy", <<>>, <<>>, BobAndBob) }

Meta1 ==
    [f \in OptFields |->
        CASE f = "album_name" -> <<"Album1">>
          [] f = "album_image_url" -> <<"X">>
          [] f = "release_year" -> <<1999>>
          [] f = "spotify_popularity" -> <<10>>
          [] f = "isrc" -> <<"I1">>]

Meta2 ==
    [f \in OptFields |->
        CASE f = "album_name" -> <<"Album2">>
          [] f = "album_image_url" -> <<"Y">>
          [] f = "release_year" -> <<2005>>
          [] f = "spotify_popularity" -> <<80>>
          [] f = "isrc" -> <<"I2">>]

Only(meta, fields) == [f \in OptFields |-> IF f \in fields THEN meta[f] ELSE NULL]

\* nothing, everything, or one optional field alone
Metas == {NoMeta, Meta1, Meta2} \cup {Only(Meta1, {f}) : f \in OptFields}

\* payloads that differ in their optional fields
MetaPayloads ==
    {Payload("t1", title, meta, "arrays", << <<"A1">> >>, <<Bob>>, <<>>) :
        title \in {"Song"}, meta \in Metas}

MetaBatches == {<<p>> : p \in MetaPayloads}

\* rows of the enrichment CSV, for the artist with internal id artist_id
Enrichments(artist_id) ==
    {[artist_id |-> artist_id, spotify_artist_id |-> <<"A1">>,
      genres |-> <<"rock">>, spotify_followers |-> <<900>>, image_url |-> <<"img">>],
     [artist_id |-> artist_id, spotify_artist_id |-> <<"A1">>,
      genres |-> <<>>, spotify_followers |-> NULL, image_url |-> NULL],
     [artist_id |-> artist_id, spotify_artist_id |-> <<"A2">>,
      genres |-> <<"pop">>, spotify_followers |-> <<500>>, image_url |-> NULL]}

\* payloads whose artists all carry an identifier
PackPayloads ==
    { Payload("t1", "Song", NoMeta, "arrays", << <<"A1">> >>, <<Bob>>, <<>>),
      Payload("t2", "Tune", NoMeta, "arrays", << <<"A2">>, <<"A1">> >>, <<bob, Bob>>, <<>>) }

BatchesOf(payloads) == UNION {[1..n -> payloads] : n \in 0..MaxBatch}

LinkBatches == BatchesOf(LinkPayloads)

PackBatches == BatchesOf(PackPayloads)

Mub == <<"M", "u", "b">>
MubAndBob == <<" ">> \o Mub \o <<" ", ",", ",">> \o Bob    \* the legacy string " Mub ,,Bob"

\* payloads whose artists share a display name under different identifiers
OrderPayloads ==
    { Payload("t1", "Song", NoMeta, "arrays", << <<"A1">>, <<"A2">> >>, <<Bob, Bob>>, <<>>),
      Payload("t2", "Tune", NoMeta, "arrays", << <<"A2">> >>, <<Bob>>, <<>>) }

OrderBatches == BatchesOf(OrderPayloads)

\* payloads that bill several artists: an id list shorter than the name
\* list, and a legacy string to split and trim
BillingPayloads ==
    { Payload("t1", "Song", NoMeta, "arrays", << <<"A1">> >>, <<Bob, Mub>>, <<>>),
      Payload("t2", "Tune", NoMeta, "legacy", <<>>, <<>>, MubAndBob) }

BillingBatches == BatchesOf(BillingPayloads)

\* payloads that make a call raise: one identifier under two names (the
\* artist upsert touches a row twice) and dicts without 'title' or 'spotify_id'
AbortPayloads ==
    { Payload("t1", "Song", Only(Meta1, {"release_year"}), "arrays", << <<"A1">> >>, <<Bob>>, <<>>),
      Payload("t2", "Tune", NoMeta, "arrays", << <<"A1">> >>, <<bob>>, <<>>),
      Payload("t3", Absent, NoMeta, "arrays", << <<"A2">> >>, <<Bob>>, <<>>),
      Payload(Absent, "Lied", NoMeta, "legacy", <<>>, <<>>, Bob),
      Payload("t2", "Tune", Only(Meta2, {"release_year"}), "arrays", << <<"A2">> >>, <<Bob>>, <<>>) }

AbortBatches == BatchesOf(AbortPayloads)

(***************************************************************************)
(* Operations.                                                             *)
(***************************************************************************)
\* A call that returned: its arguments and return value.
\* rerun: it repeats, argument for argument, the call before it, which returned.
Returned(op, args, ret) ==
    [op |-> op, ok |-> TRUE, args |-> args, ret |-> ret, err |-> "", step |-> 0,
     rerun |-> last.op = op /\ last.ok /\ last.args = args]

\* A call that raised: the error that left the `with get_db_connection()' block
\* and the step of the operation that raised it.
Raised(op, err, step) ==
    [op |-> op, ok |-> FALSE, args |-> <<>>, ret |-> 0, err |-> err, step |-> step,
     rerun |-> FALSE]

EmptyStore ==
    [packs |-> {}, tracks |-> {}, artists |-> {}, track_artists |-> {},
     pack_tracks |-> {}]

\* the empty database
Init ==
    /\ packs = {}
    /\ tracks = {}
    /\ artists = {}
    /\ track_artists = {}
    /\ pack_tracks = {}
    /\ nextId = 1
    /\ ops = 0
    /\ last = [op |-> "none", ok |-> TRUE, args |-> <<>>, ret |-> 0, err |-> "",
               step |-> 0, rerun |-> FALSE]
    /\ added = {}
    /\ pre = EmptyStore

\* the database as create_pack("Mix") leaves it: every caller of
\* add_tracks_to_pack has just created the pack it adds to
InitPack ==
    /\ packs = {[id |-> 1, name |-> "Mix"]}
    /\ tracks = {}
    /\ artists = {}
    /\ track_artists = {}
    /\ pack_tracks = {}
    /\ nextId = 1
    /\ ops = 0
    /\ last = [op |-> "create_pack", ok |-> TRUE, args |-> <<"Mix">>, ret |-> 1,
               err |-> "", step |-> 0, rerun |-> FALSE]
    /\ added = {}
    /\ pre = EmptyStore

\* variant: a pack of that name is looked up first and returned when it exists
create_pack_unless_named(name) ==
    /\ Cardinality(packs) < MaxPacks
    /\ packs' = IF \E p \in packs : p.name = name THEN packs
                ELSE packs \cup {[id |-> Cardinality(packs) + 1, name |-> name]}
    /\ last' = Returned("create_pack", <<name>>,
                        IF \E p \in packs : p.name = name
                        THEN (CHOOSE p \in packs : p.name = name).id
                        ELSE Cardinality(packs) + 1)
    /\ pre' = store
    /\ UNCHANGED <<tracks, artists, track_artists, pack_tracks, nextId, ops, added>>

\* create_pack(name): INSERT INTO packs ... RETURNING id
create_pack(name) ==
    /\ Cardinality(packs) < MaxPacks
    /\ packs' = packs \cup {[id |-> Cardinality(packs) + 1, name |-> name]}
    /\ last' = Returned("create_pack", <<name>>, Cardinality(packs) + 1)
    /\ pre' = store
    /\ UNCHANGED <<tracks, artists, track_artists, pack_tracks, nextId, ops, added>>

\* variant: the except branch commits what the transaction wrote so far
RollbackKeepsWrites(before, written) == written

\* get_db_connection, except branch: conn.rollback(); raise e
Rollback(before, written) == before

\* the call raised inside `with get_db_connection()' at the given step, after
\* the statements before it had turned the store into `written'
Abort(op, err, step, written) ==
    LET s == Rollback(store, written)
    IN  /\ packs' = s.packs
        /\ tracks' = s.tracks
        /\ artists' = s.artists
        /\ track_artists' = s.track_artists
        /\ pack_tracks' = s.pack_tracks
        /\ last' = Raised(op, err, step)
        /\ pre' = store
        /\ ops' = ops + 1
        /\ UNCHANGED <<nextId, added>>

\* the call's single statement raised: nothing had been written
RolledBack(op, err) == Abort(op, err, 1, store)

\* track['spotify_id'] / track['title'] of a dict without that key
MissingKey(batch) ==
    \E i \in DOMAIN batch : batch[i].spotify_id = Absent \/ batch[i].title = Absent

\* steps 1 to 7 of add_tracks_to_pack on the store s, for a batch that makes
\* no statement raise: the stores the call can leave (one for each order in
\* which the lookup SELECT can return its rows), with the next fresh
\* identifier and the value returned
AddedTracks(s, next, pack_id, batch) ==
    LET t1 == UpsertTracks(s.tracks, batch, next)
        keys == all_artists(batch)
        a1 == UpsertArtists(s.artists, WithId(keys), t1.next)
        a2 == InsertNameOnly(a1.rows, NameOnly(keys), a1.next)
        rows == LookupRows(a2.rows, keys)
        tlookup == track_id_lookup(t1.rows, batch)
        links == link_values(pack_id, batch, tlookup)
    IN  {[store |-> [s EXCEPT
                        !.tracks = t1.rows,
                        !.artists = a2.rows,
                        !.track_artists =
                            InsertTrackArtists(s.track_artists,
                                track_artist_values(batch, tlookup,
                                                    artist_lookup(rows, byName))),
                        !.pack_tracks = InsertPackTracks(s.pack_tracks, links)],
          next |-> a2.next,
          ret |-> Len(links)] : byName \in NameIndexes(rows)}

\* add_tracks_to_pack(pack_id, tracks)
add_tracks_to_pack(pack_id, batch) ==
    /\ ops < MaxOps
    /\ IF batch = <<>>
       THEN /\ last' = Returned("add_tracks_to_pack", <<pack_id, batch>>, 0)
            /\ pre' = store
            /\ ops' = ops + 1
            /\ UNCHANGED <<packs, tracks, artists, track_artists, pack_tracks,
                           nextId, added>>
       ELSE IF MissingKey(batch)
       THEN Abort("add_tracks_to_pack", "KeyError", 1, store)
       ELSE IF TrackUpsertFails(batch)
       THEN Abort("add_tracks_to_pack", "cardinality_violation", 1, store)
       ELSE IF ArtistUpsertFails(all_artists(batch))
       THEN Abort("add_tracks_to_pack", "cardinality_violation", 3,
                  [store EXCEPT !.tracks = UpsertTracks(tracks, batch, nextId).rows])
       ELSE \E o \in AddedTracks(store, nextId, pack_id, batch) :
                /\ tracks' = o.store.tracks
                /\ artists' = o.store.artists
                /\ track_artists' = o.store.track_artists
                /\ pack_tracks' = o.store.pack_tracks
                /\ nextId' = o.next
                /\ last' = Returned("add_tracks_to_pack", <<pack_id, batch>>, o.ret)
                /\ pre' = store
                /\ ops' = ops + 1
                /\ added' = added \cup {<<pack_id, batch[i].spotify_id>> :
                                            i \in DOMAIN batch}
                /\ UNCHANGED packs

\* update_track_metadata(track_id, release_year, album_name)
update_track_metadata(track_id, release_year, album_name) ==
    /\ ops < MaxOps
    /\ tracks' = {IF t.id = track_id
                  THEN [t EXCEPT !.release_year = release_year,
                                 !.album_name = album_name]
                  ELSE t : t \in tracks}
    /\ last' = Returned("update_track_metadata",
                        <<track_id, release_year, album_name>>, 0)
    /\ pre' = store
    /\ ops' = ops + 1
    /\ UNCHANGED <<packs, artists, track_artists, pack_tracks, nextId, added>>

\* UPDATE tracks SET x = COALESCE(data.x, tracks.x) ... WHERE tracks.id = data.id
BackfillTrack(t, d) ==
    [t EXCEPT !.album_name = COALESCE(d.album_name, t.album_name),
              !.album_image_url = COALESCE(d.album_image_url, t.album_image_url),
              !.release_year = COALESCE(d.release_year, t.release_year),
              !.spotify_popularity = COALESCE(d.spotify_popularity, t.spotify_popularity),
              !.isrc = COALESCE(d.isrc, t.isrc)]

\* update_tracks_in_db(tracks_metadata), for dicts of pairwise different ids
update_tracks_in_db(tracks_metadata) ==
    LET data == {tracks_metadata[i] : i \in DOMAIN tracks_metadata}
        hit(t) == {d \in data : d.id = t.id}
    IN  /\ ops < MaxOps
        /\ tracks' = {IF hit(t) # {} THEN BackfillTrack(t, CHOOSE d \in hit(t) : TRUE)
                      ELSE t : t \in tracks}
        /\ last' = Returned("update_tracks_in_db", <<tracks_metadata>>,
                            Cardinality({t \in tracks : hit(t) # {}}))
        /\ pre' = store
        /\ ops' = ops + 1
        /\ UNCHANGED <<packs, artists, track_artists, pack_tracks, nextId, added>>

\* UPDATE artists SET spotify_artist_id = ..., genres = ..., ... WHERE artists.id = data.id
EnrichArtist(a, e) ==
    [a EXCEPT !.spotify_artist_id = e.spotify_artist_id,
              !.genres = e.genres,
              !.spotify_followers = e.spotify_followers,
              !.image_url = e.image_url]

\* apply_enrichments(enrichments), for rows of pairwise different artist_id
apply_enrichments(enrichments) ==
    LET data == {enrichments[i] : i \in DOMAIN enrichments}
        hit(a) == {e \in data : e.artist_id = a.id}
        new == {IF hit(a) # {} THEN EnrichArtist(a, CHOOSE e \in hit(a) : TRUE)
                ELSE a : a \in artists}
        \* UNIQUE (spotify_artist_id)
        clash == \E a, b \in new : /\ a.id # b.id
                                   /\ a.spotify_artist_id # NULL
                                   /\ a.spotify_artist_id = b.spotify_artist_id
    IN  /\ ops < MaxOps
        /\ IF clash
           THEN RolledBack("apply_enrichments", "unique_violation")
           ELSE /\ artists' = new
                /\ last' = Returned("apply_enrichments", <<enrichments>>,
                                    Cardinality({a \in artists : hit(a) # {}}))
                /\ pre' = store
                /\ ops' = ops + 1
                /\ UNCHANGED <<packs, tracks, track_artists, pack_tracks, nextId, added>>

CreatePack == \E name \in {"Mix"} : create_pack(name)

AddPackBatch ==
    \E p \in packs, batch \in PackBatches : add_tracks_to_pack(p.id, batch)

Next == CreatePack \/ AddPackBatch

Spec == Init /\ [][Next]_vars

(***************************************************************************)
(* Artist resolution: batches into one pack whose payloads carry artists   *)
(* with and without identifier, in both payload forms.                     *)
(***************************************************************************)
AddLinkBatch ==
    \E p \in packs, batch \in LinkBatches : add_tracks_to_pack(p.id, batch)

NextLinks == AddLinkBatch

SpecLinks == InitPack /\ [][NextLinks]_vars

(***************************************************************************)
(* Same-named artists: batches whose payloads list artists of one display  *)
(* name under different identifiers.                                       *)
(***************************************************************************)
AddOrderBatch ==
    \E p \in packs, batch \in OrderBatches : add_tracks_to_pack(p.id, batch)

NextOrder == CreatePack \/ AddOrderBatch

SpecOrder == Init /\ [][NextOrder]_vars

(***************************************************************************)
(* Billing order: batches into one pack whose payloads list several        *)
(* artists per track.                                                      *)
(***************************************************************************)
AddBillingBatch ==
    \E p \in packs, batch \in BillingBatches : add_tracks_to_pack(p.id, batch)

NextBilling == AddBillingBatch

SpecBilling == InitPack /\ [][NextBilling]_vars

(***************************************************************************)
(* Failing calls: batches that raise at the first statement or after it.   *)
(***************************************************************************)
AddAbortBatch ==
    \E p \in packs, batch \in AbortBatches : add_tracks_to_pack(p.id, batch)

NextAbort == CreatePack \/ AddAbortBatch

SpecAbort == Init /\ [][NextAbort]_vars

(***************************************************************************)
(* The writers of the enrichment fields: add_tracks_to_pack with payloads  *)
(* that differ in their optional fields, and the three update operations.  *)
(***************************************************************************)
AddMetaBatch ==
    \E p \in packs, batch \in MetaBatches : add_tracks_to_pack(p.id, batch)

UpdateTrackMetadata ==
    \E t \in tracks, release_year \in {NULL, <<2005>>},
       album_name \in {NULL, <<"Album2">>} :
        update_track_metadata(t.id, release_year, album_name)

UpdateTracksInDb ==
    \E t \in tracks, meta \in Metas :
        update_tracks_in_db(<<[id |-> t.id,
                               album_name |-> meta["album_name"],
                               album_image_url |-> meta["album_image_url"],
                               release_year |-> meta["release_year"],
                               spotify_popularity |-> meta["spotify_popularity"],
                               isrc |-> meta["isrc"]]>>)

ApplyEnrichments ==
    \E a \in artists : \E e \in Enrichments(a.id) : apply_enrichments(<<e>>)

NextMerge ==
    CreatePack \/ AddMetaBatch \/ UpdateTrackMetadata \/ UpdateTracksInDb
        \/ ApplyEnrichments

SpecMerge == Init /\ [][NextMerge]_vars

(***************************************************************************)
(* Every writer of the store, calls that raise included.                   *)
(***************************************************************************)
NextWriters ==
    CreatePack \/ AddAbortBatch \/ UpdateTrackMetadata \/ UpdateTracksInDb
        \/ ApplyEnrichments

SpecWriters == Init /\ [][NextWriters]_vars

(***************************************************************************)
(* The catalog client (scripts/utils/spotify.py).  The catalog's answer to *)
(* a request is an input of the call; the call and what it returned are    *)
(* recorded in `last', the store is left alone.                            *)
(***************************************************************************)
\* a.get('followers', {}).get('total', 0)
FollowerTotal(a) == IF a.followers = NULL THEN 0 ELSE a.followers[1]

\* sorted(artists, key=FollowerTotal, reverse=True): stable, so items of
\* equal follower count keep the order the catalog gave them
RECURSIVE InsertByFollowers(_, _)
InsertByFollowers(sorted, a) ==
    IF sorted = <<>> THEN <<a>>
    ELSE IF FollowerTotal(Head(sorted)) >= FollowerTotal(a)
    THEN <<Head(sorted)>> \o InsertByFollowers(Tail(sorted), a)
    ELSE <<a>> \o sorted

RECURSIVE SortByFollowers(_, _)
SortByFollowers(items, acc) ==
    IF items = <<>> THEN acc
    ELSE SortByFollowers(Tail(items), InsertByFollowers(acc, Head(items)))

\* search_artist_by_name(name): the sorted items, [] when the search raised
search_artist_by_name(api) ==
    IF api.raises THEN <<>> ELSE SortByFollowers(api.items, <<>>)

\* variant: artist['name'] == name
NameMatchesExactly(a, name) == a.name = name

\* artist['name'].lower() == name.lower()
NameMatches(a, name) == Lower(a.name) = Lower(name)

RECURSIVE SelectMatches(_, _)
SelectMatches(results, name) ==
    IF results = <<>> THEN <<>>
    ELSE IF NameMatches(Head(results), name)
    THEN <<Head(results)>> \o SelectMatches(Tail(results), name)
    ELSE SelectMatches(Tail(results), name)

\* max(items, key=FollowerTotal): the first item of maximal key
RECURSIVE MaxByFollowers(_, _)
MaxByFollowers(best, rest) ==
    IF rest = <<>> THEN best
    ELSE IF FollowerTotal(Head(rest)) > FollowerTotal(best)
    THEN MaxByFollowers(Head(rest), Tail(rest))
    ELSE MaxByFollowers(best, Tail(rest))

\* get_best_artist_match(name): None (NULL) or the chosen item
get_best_artist_match(name, api) ==
    LET results == search_artist_by_name(api)
        exact_matches == SelectMatches(results, name)
    IN  IF results = <<>> THEN NULL
        ELSE IF exact_matches # <<>>
        THEN <<MaxByFollowers(Head(exact_matches), Tail(exact_matches))>>
        ELSE <<results[1]>>

TheWho == <<"T", "h", "e", " ", "W", "h", "o">>
thewho == <<"t", "h", "e", " ", "w", "h", "o">>

\* the items a catalog search may return
ArtistItems ==
    [name : {TheWho, thewho, Bob}, followers : {NULL, <<500>>, <<900>>}]

\* the catalog's answers: it raised, or a list of items
SearchAnswers ==
    {[raises |-> TRUE, items |-> <<>>]} \cup
    {[raises |-> FALSE, items |-> items] :
        items \in UNION {[1..n -> ArtistItems] : n \in 0..MaxResults}}

\* the arguments (and catalog answers) of a call about to be made
Pending(args) ==
    [op |-> "pending", ok |-> TRUE, args |-> args, ret |-> 0, err |-> "",
     step |-> 0, rerun |-> FALSE]

\* a client call about to be made with one of the given inputs; the client
\* does not touch the store
InitCall(inputs) ==
    /\ packs = {}
    /\ tracks = {}
    /\ artists = {}
    /\ track_artists = {}
    /\ pack_tracks = {}
    /\ nextId = 1
    /\ ops = 0
    /\ last \in {Pending(args) : args \in inputs}
    /\ added = {}
    /\ pre = EmptyStore

\* the pending call returns
Return(op, ret) ==
    /\ last.op = "pending"
    /\ last' = Returned(op, last.args, ret)
    /\ UNCHANGED <<packs, tracks, artists, track_artists, pack_tracks,
                   nextId, ops, pre, added>>

\* the pending call raises, after so many requests to the catalog
Raise(op, err, calls) ==
    /\ last.op = "pending"
    /\ last' = [Raised(op, err, 0) EXCEPT !.args = last.args, !.ret = calls]
    /\ UNCHANGED <<packs, tracks, artists, track_artists, pack_tracks,
                   nextId, ops, pre, added>>

MatchInputs == {<<name, api>> : name \in {TheWho, Mub}, api \in SearchAnswers}

InitMatch == InitCall(MatchInputs)

GetBestArtistMatch ==
    Return("get_best_artist_match", get_best_artist_match(last.args[1], last.args[2]))

NextMatch == GetBestArtistMatch

SpecMatch == InitMatch /\ [][NextMatch]_vars

(***************************************************************************)
(* Track metadata requests: get_tracks_batch (spotify.py) and              *)
(* fetch_track_metadata_from_spotify (backfill_track_metadata.py).  What a *)
(* call returns is recorded with the number of requests it sent.           *)
(***************************************************************************)
MaxIdsPerRequest == 50      \* get_tracks_batch
MaxTracksPerBatch == 50     \* fetch_track_metadata_from_spotify

\* variant: the comparison is off by one
TooManyOffByOne(spotify_ids, limit) == Len(spotify_ids) > limit + 1

\* len(spotify_ids) > 50
TooMany(spotify_ids, limit) == Len(spotify_ids) > limit

Digit(c) ==
    CASE c = "0" -> 0 [] c = "1" -> 1 [] c = "2" -> 2 [] c = "3" -> 3
      [] c = "4" -> 4 [] c = "5" -> 5 [] c = "6" -> 6 [] c = "7" -> 7
      [] c = "8" -> 8 [] c = "9" -> 9 [] OTHER -> -1

RECURSIVE ParseDigits(_, _)
ParseDigits(s, acc) ==
    IF s = <<>> THEN acc ELSE ParseDigits(Tail(s), 10 * acc + Digit(Head(s)))

\* release_date.split('-')[0]
RECURSIVE FirstPiece(_)
FirstPiece(s) ==
    IF s = <<>> \/ Head(s) = "-" THEN <<>> ELSE <<Head(s)>> \o FirstPiece(Tail(s))

\* the year of a release date of digits and dashes, None outside 1900..2100
\* or when int() raises
ReleaseYear(release_date) ==
    LET piece == FirstPiece(release_date)
    IN  IF release_date = <<>> THEN NULL
        ELSE IF piece = <<>> \/ \E i \in DOMAIN piece : Digit(piece[i]) < 0 THEN NULL
        ELSE IF 1900 <= ParseDigits(piece, 0) /\ ParseDigits(piece, 0) <= 2100
        THEN <<ParseDigits(piece, 0)>>
        ELSE NULL

\* the medium image when there are two or more, else the only one, else None
AlbumImage(images) ==
    IF images = <<>> THEN NULL
    ELSE IF Len(images) >= 2 THEN <<images[2]>>
    ELSE <<images[1]>>

\* the catalog's record of a track
CatalogTrack(id) ==
    [id |-> id,
     album |-> [name |-> "Album1", images |-> <<"large", "medium">>,
                release_date |-> <<"1", "9", "9", "9", "-", "0", "5">>],
     popularity |-> <<10>>, isrc |-> <<"I1">>]

\* sp.tracks(spotify_ids)['tracks']: one entry per identifier, None for a
\* track the catalog does not have
CatalogTracks(spotify_ids, api) ==
    [i \in DOMAIN spotify_ids |->
        IF i \in api.missing THEN NULL ELSE <<CatalogTrack(spotify_ids[i])>>]

RECURSIVE TracksData(_)
TracksData(found) ==
    IF found = <<>> THEN <<>>
    ELSE IF Head(found) = NULL THEN TracksData(Tail(found))
    ELSE <<[spotify_id |-> Head(found)[1].id,
            popularity |-> Head(found)[1].popularity,
            isrc |-> Head(found)[1].isrc]>> \o TracksData(Tail(found))

MetadataMap(found) ==
    LET hit == {i \in DOMAIN found : found[i] # NULL}
    IN  [id \in {found[i][1].id : i \in hit} |->
            LET track == (CHOOSE i \in hit : found[i][1].id = id)
                t == found[track][1]
            IN  [album_name |-> <<t.album.name>>,
                 album_image_url |-> AlbumImage(t.album.images),
                 release_year |-> ReleaseYear(t.album.release_date),
                 spotify_popularity |-> t.popularity,
                 isrc |-> t.isrc]]

\* the result of a call with the number of catalog requests it sent
Outcome(value, calls) == [value |-> value, calls |-> calls]

\* get_tracks_batch(spotify_ids)
GetTracksBatch ==
    LET spotify_ids == last.args[1]
        api == last.args[2]
    IN  IF spotify_ids = <<>>
        THEN Return("get_tracks_batch", Outcome(<<>>, 0))
        ELSE IF TooMany(spotify_ids, MaxIdsPerRequest)
        THEN Raise("get_tracks_batch", "ValueError", 0)
        ELSE IF api.raises
        THEN Return("get_tracks_batch", Outcome(<<>>, 1))
        ELSE Return("get_tracks_batch",
                    Outcome(TracksData(CatalogTracks(spotify_ids, api)), 1))

\* fetch_track_metadata_from_spotify(spotify_client, spotify_ids)
FetchTrackMetadata ==
    LET spotify_ids == last.args[1]
        api == last.args[2]
    IN  IF spotify_ids = <<>>
        THEN Return("fetch_track_metadata_from_spotify", Outcome(<<>>, 0))
        ELSE IF TooMany(spotify_ids, MaxTracksPerBatch)
        THEN Raise("fetch_track_metadata_from_spotify", "ValueError", 0)
        ELSE IF api.raises
        THEN Return("fetch_track_metadata_from_spotify", Outcome(<<>>, 1))
        ELSE Return("fetch_track_metadata_from_spotify",
                    Outcome(MetadataMap(CatalogTracks(spotify_ids, api)), 1))

\* requests of 0..MaxIds identifiers; the catalog raises, has every track,
\* or lacks the first one
FetchInputs ==
    {<<[i \in 1..n |-> i], api>> :
        n \in 0..MaxIds,
        api \in {[raises |-> TRUE, missing |-> {}],
                 [raises |-> FALSE, missing |-> {}],
                 [raises |-> FALSE, missing |-> {1}]}}

InitFetch == InitCall(FetchInputs)

NextFetch == GetTracksBatch \/ FetchTrackMetadata

SpecFetch == InitFetch /\ [][NextFetch]_vars

(***************************************************************************)
(* parse_track_list (scripts/utils/parser.py), on a description given as a *)
(* sequence of characters.                                                 *)
(***************************************************************************)
SetMin(S) == CHOOSE x \in S : \A y \in S : x <= y
SetMax(S) == CHOOSE x \in S : \A y \in S : y <= x

StartsWith(s, prefix) ==
    Len(s) >= Len(prefix) /\ SubSeq(s, 1, Len(prefix)) = prefix

\* the index of the first occurrence of sep in s, 0 when there is none
Find(s, sep) ==
    LET hits == {k \in 1..(Len(s) - Len(sep) + 1) :
                    SubSeq(s, k, k + Len(sep) - 1) = sep}
    IN  IF hits = {} THEN 0 ELSE SetMin(hits)

\* str.split(c) for a one-character separator
RECURSIVE SplitAt(_, _, _, _)
SplitAt(s, c, cur, acc) ==
    IF s = <<>> THEN Append(acc, cur)
    ELSE IF Head(s) = c THEN SplitAt(Tail(s), c, <<>>, Append(acc, cur))
    ELSE SplitAt(Tail(s), c, Append(cur, Head(s)), acc)

\* variant: line.rsplit(sep, 1), which splits at the last occurrence
SplitOnceLast(line, sep) ==
    LET hits == {k \in 1..(Len(line) - Len(sep) + 1) :
                    SubSeq(line, k, k + Len(sep) - 1) = sep}
    IN  IF hits = {} THEN <<line>>
        ELSE <<SubSeq(line, 1, SetMax(hits) - 1),
               SubSeq(line, SetMax(hits) + Len(sep), Len(line))>>

\* line.split(sep, 1)
SplitOnce(line, sep) ==
    LET k == Find(line, sep)
    IN  IF k = 0 THEN <<line>>
        ELSE <<SubSeq(line, 1, k - 1), SubSeq(line, k + Len(sep), Len(line))>>

TrackWord == <<"t", "r", "a", "c", "k">>
ListWord == <<"l", "i", "s", "t">>

\* the last index of the run of whitespace that starts at k (k - 1: no run)
RECURSIVE RunEnd(_, _)
RunEnd(s, k) == IF k <= Len(s) /\ IsSpace(s[k]) THEN RunEnd(s, k + 1) ELSE k - 1

\* Track ?List:?\s*\n matched at index i (IGNORECASE): the index where group 1
\* starts, 0 when there is no match at i.  \s* is greedy and gives back up to
\* the last newline of the whitespace after the header.
CaptureStart(s, i) ==
    LET has(k, w) == k + Len(w) - 1 <= Len(s) /\ Lower(SubSeq(s, k, k + Len(w) - 1)) = w
        j1 == i + Len(TrackWord)
        j2 == IF j1 <= Len(s) /\ s[j1] = " " THEN j1 + 1 ELSE j1
        j3 == j2 + Len(ListWord)
        j4 == IF j3 <= Len(s) /\ s[j3] = ":" THEN j3 + 1 ELSE j3
        newlines == {k \in j4..RunEnd(s, j4) : s[k] = "\n"}
    IN  IF ~has(i, TrackWord) THEN 0
        ELSE IF ~has(j2, ListWord) THEN 0
        ELSE IF newlines = {} THEN 0
        ELSE SetMax(newlines) + 1

\* (.*?)(?:\n\n|$) from start (DOTALL, not MULTILINE): the index after group 1,
\* at the first empty line, at the end, or before a final newline
CaptureEnd(s, start) ==
    SetMin({q \in start..(Len(s) + 1) :
              \/ q = Len(s) + 1
              \/ q = Len(s) /\ s[q] = "\n"
              \/ q < Len(s) /\ s[q] = "\n" /\ s[q + 1] = "\n"})

WatchMore == <<"W", "a", "t", "c", "h", " ", "m", "o", "r", "e">>
Http == <<"h", "t", "t", "p">>
Hash == <<"#">>
Dash == <<" ", "-", " ">>

\* the loop body, for the lines from the first one on
RECURSIVE ParseLines(_)
ParseLines(lines) ==
    IF lines = <<>> THEN <<>>
    ELSE LET line == Strip(Head(lines))
             parts == SplitOnce(line, Dash)
             rest == ParseLines(Tail(lines))
         IN  IF line = <<>> THEN rest
             ELSE IF StartsWith(line, WatchMore) \/ StartsWith(line, Http)
                     \/ StartsWith(line, Hash)
             THEN rest
             ELSE IF Len(parts) = 2
             THEN IF Strip(parts[1]) = <<>> \/ Strip(parts[2]) = <<>> THEN rest
                  ELSE <<[title |-> Strip(parts[1]), artist |-> Strip(parts[2]),
                          raw |-> line]>> \o rest
             ELSE rest

\* parse_track_list(description)
parse_track_list(description) ==
    LET starts == {i \in 1..Len(description) : CaptureStart(description, i) # 0}
    IN  IF starts = {} THEN <<>>
        ELSE LET from == CaptureStart(description, SetMin(starts))
                 track_list_text ==
                     SubSeq(description, from, CaptureEnd(description, from) - 1)
             IN  ParseLines(SplitAt(Strip(track_list_text), "\n", <<>>, <<>>))

SongA == <<"S", "o", "n", "g", " ", "A">>
SongB == <<"S", "o", "n", "g", " ", "B">>
ArtistA == <<"A", "r", "t", "i", "s", "t", " ", "A">>
ArtistB == <<"A", "r", "t", "i", "s", "t", " ", "B">>
LineA == SongA \o Dash \o ArtistA                 \* "Song A - Artist A"
LineB == SongB \o Dash \o ArtistB                 \* "Song B - Artist B"
badline == <<"b", "a", "d", "l", "i", "n", "e">>
HashLine == Hash \o <<"9">> \o Dash \o ArtistA     \* "#9 - Artist A"
TwoDashes == SongA \o Dash \o ArtistA \o Dash \o ArtistB
NoTitle == Dash \o ArtistB                        \* " - Artist B"
TrackListHeader == <<"T", "r", "a", "c", "k", " ", "L", "i", "s", "t", ":">>

\* the lines a description is made of
DescriptionLines ==
    {LineA, LineB, badline, HashLine, TwoDashes, NoTitle, <<>>, <<" ">>}

RECURSIVE JoinLines(_)
JoinLines(lines) ==
    IF lines = <<>> THEN <<>>
    ELSE IF Len(lines) = 1 THEN Head(lines)
    ELSE Head(lines) \o <<"\n">> \o JoinLines(Tail(lines))

\* header, newline, the lines joined by newlines, and what follows them
Description(header, lines, trailer) ==
    header \o <<"\n">> \o JoinLines(lines) \o trailer

ParseInputs ==
    {<<header, lines, trailer>> :
        header \in {TrackListHeader, SongA},
        lines \in UNION {[1..n -> DescriptionLines] : n \in 0..MaxLines},
        trailer \in {<<>>, <<"\n", "\n">>}}

InitParse == InitCall(ParseInputs)

ParseTrackList ==
    Return("parse_track_list",
           parse_track_list(Description(last.args[1], last.args[2], last.args[3])))

NextParse == ParseTrackList

SpecParse == InitParse /\ [][NextParse]_vars

(***************************************************************************)
(* search_track and search_tracks_batch (scripts/utils/spotify.py).  Each  *)
(* entry of the list comes with the catalog's answer to its search:        *)
(* "raises", "none" (no item) or "found".                                  *)
(***************************************************************************)
\* `not x' is false: the key is there and its string is not empty
Truthy(x) == x # NULL /\ x[1] # ""

\* variant: only the title is tested
SearchableByTitle(track) == Truthy(track.title)

\* not (not title or not artist)
Searchable(track) == Truthy(track.title) /\ Truthy(track.artist)

\* ', '.join(artist_names)
RECURSIVE JoinNames(_)
JoinNames(names) ==
    IF names = <<>> THEN <<>>
    ELSE IF Len(names) = 1 THEN Head(names)
    ELSE Head(names) \o <<",", " ">> \o JoinNames(Tail(names))

\* the first item the catalog has for a query: it bears the title asked for
SearchItem(title) ==
    [id |-> "t1", name |-> title,
     artists |-> <<[id |-> <<"A1">>, name |-> Bob], [id |-> <<"A2">>, name |-> Mub]>>,
     album |-> [name |-> "Album1", images |-> <<"large", "medium">>,
                release_date |-> <<"1", "9", "9", "9", "-", "0", "5">>]]

\* get_artist_genres(artist_id): the catalog's genres of an artist
ArtistGenres(artist_id) == IF artist_id = <<"A1">> THEN <<"rock", "pop">> ELSE <<>>

\* _get_primary_genre(artist_ids): the first genre of the first artist
PrimaryGenre(artist_ids) ==
    IF artist_ids = <<>> THEN NULL
    ELSE IF ArtistGenres(artist_ids[1]) = <<>> THEN NULL
    ELSE <<ArtistGenres(artist_ids[1])[1]>>

\* search_track(title, artist): None (NULL) when the search raised or found
\* no item, else the track dict
search_track(title, artist, answer) ==
    IF answer # "found" THEN NULL
    ELSE LET track == SearchItem(title[1])
             artist_ids == [i \in DOMAIN track.artists |-> track.artists[i].id]
             artist_names == [i \in DOMAIN track.artists |-> track.artists[i].name]
         IN  <<[title |-> track.name,
                artist |-> JoinNames(artist_names),
                artist_ids |-> artist_ids,
                artist_names |-> artist_names,
                spotify_id |-> track.id,
                album |-> track.album.name,
                album_image_url |-> AlbumImage(track.album.images),
                release_date |-> track.album.release_date,
                release_year |-> ReleaseYear(track.album.release_date),
                primary_genre |-> PrimaryGenre(artist_ids)]>>

\* the loop of search_tracks_batch from entry i on: the matches so far and
\* the indexes of the entries whose search was sent, in the order sent
RECURSIVE SearchLoop(_, _, _)
SearchLoop(entries, i, acc) ==
    IF i > Len(entries) THEN acc
    ELSE IF ~Searchable(entries[i].track) THEN SearchLoop(entries, i + 1, acc)
    ELSE LET result == search_track(entries[i].track.title,
                                    entries[i].track.artist, entries[i].answer)
             sent == Append(acc.searched, i)
         IN  IF result # NULL
             THEN SearchLoop(entries, i + 1,
                             [value |-> Append(acc.value, result[1]), searched |-> sent])
             ELSE SearchLoop(entries, i + 1, [acc EXCEPT !.searched = sent])

\* search_tracks_batch(tracks)
search_tracks_batch(entries) == SearchLoop(entries, 1, [value |-> <<>>, searched |-> <<>>])

\* entries with and without title and artist, each with the catalog's answer
SearchEntries ==
    [track : [title : {NULL, <<"">>, <<"Song">>, <<"Tune">>}, artist : {NULL, <<"Bob">>}],
     answer : {"raises", "none", "found"}]

SearchInputs ==
    {<<entries>> : entries \in UNION {[1..n -> SearchEntries] : n \in 0..MaxEntries}}

InitSearch == InitCall(SearchInputs)

SearchTracksBatch == Return("search_tracks_batch", search_tracks_batch(last.args[1]))

NextSearch == SearchTracksBatch

SpecSearch == InitSearch /\ [][NextSearch]_vars

(***************************************************************************)
(* deduplicate_enrichment.py: main() on the rows of the input CSV.  A row  *)
(* is a dict of strings; spotify_followers is a sequence of characters.    *)
(***************************************************************************)
\* int(c['spotify_followers'] or 0), for a string of digits or the empty string
Followers(c) ==
    IF c.spotify_followers = <<>> THEN 0 ELSE ParseDigits(c.spotify_followers, 0)

\* int() raises ValueError on anything else
BadInt(c) ==
    \E i \in DOMAIN c.spotify_followers : Digit(c.spotify_followers[i]) < 0

\* by_spotify_id: the keys in insertion order, and the list under one key
GroupKeys(enrichments) ==
    DistinctFrom([i \in 1..Len(enrichments) |-> enrichments[i].spotify_artist_id], <<>>)

Candidates(enrichments, sid) ==
    SelectSeq2(enrichments,
               {e \in {enrichments[i] : i \in DOMAIN enrichments} :
                   e.spotify_artist_id = sid})

\* max(candidates, key=lambda c: int(c['spotify_followers'] or 0)): the first
\* of the largest
RECURSIVE MaxFollowers(_, _)
MaxFollowers(best, rest) ==
    IF rest = <<>> THEN best
    ELSE IF Followers(Head(rest)) > Followers(best)
    THEN MaxFollowers(Head(rest), Tail(rest))
    ELSE MaxFollowers(best, Tail(rest))

ExactMatches(candidates) ==
    SelectSeq2(candidates,
               {c \in {candidates[i] : i \in DOMAIN candidates} :
                   c.match_type = "exact"})

\* variant: the match type is not looked at
BestByFollowers(candidates) == MaxFollowers(Head(candidates), Tail(candidates))

\* the row kept for one spotify_artist_id
Best(candidates) ==
    IF Len(candidates) = 1 THEN candidates[1]
    ELSE LET exact_matches == ExactMatches(candidates)
         IN  IF exact_matches # <<>>
             THEN MaxFollowers(Head(exact_matches), Tail(exact_matches))
             ELSE MaxFollowers(Head(candidates), Tail(candidates))

RECURSIVE Sum(_)
Sum(s) == IF s = <<>> THEN 0 ELSE Head(s) + Sum(Tail(s))

\* the rows written to the output CSV and the count printed as removed
deduplicated(enrichments) ==
    LET keys == GroupKeys(enrichments)
    IN  [rows |-> [k \in 1..Len(keys) |-> Best(Candidates(enrichments, keys[k]))],
         removed |-> Sum([k \in 1..Len(keys) |->
                            Len(Candidates(enrichments, keys[k])) - 1])]

\* int() is reached for the rows max() is called on
DedupRaises(enrichments) ==
    \E sid \in {enrichments[i].spotify_artist_id : i \in DOMAIN enrichments} :
        LET candidates == Candidates(enrichments, sid)
            looked == IF ExactMatches(candidates) # <<>>
                      THEN ExactMatches(candidates) ELSE candidates
        IN  Len(candidates) > 1 /\ \E i \in DOMAIN looked : BadInt(looked[i])

MaxRows == 3    \* rows of an enrichment CSV

\* rows of the CSV: artist_id is the row's own, the other fields vary
CsvRows ==
    [spotify_artist_id : {"A1"}, match_type : {"exact", "fuzzy"},
     spotify_followers : {<<>>, <<"5">>, <<"1", "0">>}]
    \cup [spotify_artist_id : {"A2"}, match_type : {"exact", "fuzzy"},
          spotify_followers : {<<"5">>, <<"x">>}]

CsvFiles ==
    UNION {{[i \in 1..n |-> [artist_id |-> i,
                             spotify_artist_id |-> f[i].spotify_artist_id,
                             match_type |-> f[i].match_type,
                             spotify_followers |-> f[i].spotify_followers]] :
               f \in [1..n -> CsvRows]} : n \in 0..MaxRows}

DedupInputs == {<<f>> : f \in CsvFiles}

InitDedup == InitCall(DedupInputs)

DeduplicateEnrichment ==
    IF DedupRaises(last.args[1])
    THEN Raise("deduplicate_enrichment", "ValueError", 0)
    ELSE Return("deduplicate_enrichment", deduplicated(last.args[1]))

NextDedup == DeduplicateEnrichment

SpecDedup == InitDedup /\ [][NextDedup]_vars
(***************************************************************************)
(* apply_artist_enrichment.py: main(), from the command line to the exit,  *)
(* on a store that holds artists.  `last' holds the position in main() and *)
(* what it has read, validated and been answered so far.                   *)
(***************************************************************************)
\* one row of the CSV as read_enrichment_csv turns it into a dict
ParsedRow(row) ==
    [artist_id |-> row.artist_id,
     spotify_artist_id |-> row.spotify_artist_id,
     genres |-> IF row.genres # <<>> THEN SplitAt(row.genres, "|", <<>>, <<>>) ELSE <<>>,
     spotify_followers |-> IF row.spotify_followers # <<>>
                           THEN <<ParseDigits(row.spotify_followers, 0)>> ELSE NULL,
     image_url |-> row.image_url,
     match_type |-> row.match_type]

\* read_enrichment_csv(csv_path): the dicts, or the exception of open() / int()
read_enrichment_csv(file) ==
    IF file.status = "missing" THEN [err |-> "FileNotFoundError", rows |-> <<>>]
    ELSE IF \E i \in DOMAIN file.rows : BadInt(file.rows[i])
    THEN [err |-> "ValueError", rows |-> <<>>]
    ELSE [err |-> "", rows |-> [i \in 1..Len(file.rows) |-> ParsedRow(file.rows[i])]]

\* variant: the check for duplicate spotify_artist_id is left out
validate_without_duplicate_check(enrichments) ==
    /\ enrichments # <<>>
    /\ \A i \in DOMAIN enrichments :
          enrichments[i].artist_id # <<>> /\ enrichments[i].spotify_artist_id # <<>>

\* validate_enrichments(enrichments)
validate_enrichments(enrichments) ==
    /\ enrichments # <<>>
    /\ \A i \in DOMAIN enrichments :
          enrichments[i].artist_id # <<>> /\ enrichments[i].spotify_artist_id # <<>>
    /\ LET spotify_ids == [i \in 1..Len(enrichments) |->
                              enrichments[i].spotify_artist_id]
       IN  Len(spotify_ids) = Cardinality({spotify_ids[i] : i \in DOMAIN spotify_ids})

\* UPDATE artists ... FROM (VALUES ...) AS data WHERE artists.id = data.id:
\* the tables the statement can leave; when several data rows name one
\* artist, any one of them is the row applied
EnrichedTables(rows, enrichments) ==
    LET data == {enrichments[i] : i \in DOMAIN enrichments}
        hit(a) == {e \in data : e.artist_id = <<a.id>>}
        named == {a \in rows : hit(a) # {}}
    IN  {(rows \ named) \cup {EnrichArtist(a, f[a]) : a \in named} :
            f \in {g \in [named -> data] : \A a \in named : g[a] \in hit(a)}}

\* UNIQUE (spotify_artist_id)
UniqueViolation(rows) ==
    \E a, b \in rows : /\ a.id # b.id
                       /\ a.spotify_artist_id # NULL
                       /\ a.spotify_artist_id = b.spotify_artist_id

\* the rows an enrichment CSV is made of
ApplyRows ==
    { [artist_id |-> <<1>>, spotify_artist_id |-> <<"A1">>, genres |-> <<"r", "|", "p">>,
       spotify_followers |-> <<"5">>, image_url |-> <<"img">>, match_type |-> "exact"],
      [artist_id |-> <<2>>, spotify_artist_id |-> <<"A1">>, genres |-> <<>>,
       spotify_followers |-> <<>>, image_url |-> NULL, match_type |-> "fuzzy"],
      [artist_id |-> <<2>>, spotify_artist_id |-> <<"A2">>, genres |-> <<"p">>,
       spotify_followers |-> <<"1", "0">>, image_url |-> NULL, match_type |-> "exact"],
      [artist_id |-> <<>>, spotify_artist_id |-> <<"A3">>, genres |-> <<>>,
       spotify_followers |-> <<>>, image_url |-> NULL, match_type |-> "exact"],
      [artist_id |-> <<1>>, spotify_artist_id |-> <<>>, genres |-> <<>>,
       spotify_followers |-> <<>>, image_url |-> NULL, match_type |-> "fuzzy"],
      [artist_id |-> <<1>>, spotify_artist_id |-> <<"A3">>, genres |-> <<>>,
       spotify_followers |-> <<"x">>, image_url |-> NULL, match_type |-> "exact"] }

ApplyFiles ==
    {[status |-> "missing", rows |-> <<>>]} \cup
    {[status |-> "ok", rows |-> rows] :
        rows \in UNION {[1..n -> ApplyRows] : n \in 0..MaxRows}}

Responses == {<<"y">>, <<"Y">>, <<"n">>, <<>>, <<"y", "e", "s">>}

\* main() is about to run, with or without a path on the command line
Main(argv, file) ==
    [op |-> "apply_artist_enrichment", ok |-> TRUE, pc |-> "argv", argv |-> argv,
     file |-> file, enrichments |-> <<>>, read |-> FALSE, valid |-> FALSE,
     response |-> <<>>, asked |-> FALSE, invoked |-> 0, updated |-> 0,
     exit |-> NULL, err |-> ""]

\* three artists as add_tracks_to_pack stored them: two by name only, one
\* with the identifier "A2"
InitApply ==
    /\ packs = {}
    /\ tracks = {}
    /\ artists = {NewArtist(1, NULL, Bob), NewArtist(2, NULL, Mub),
                  NewArtist(3, <<"A2">>, bob)}
    /\ track_artists = {}
    /\ pack_tracks = {}
    /\ nextId = 4
    /\ ops = 0
    /\ last \in {Main(argv, file) : argv \in BOOLEAN, file \in ApplyFiles}
    /\ added = {}
    /\ pre = [EmptyStore EXCEPT
                 !.artists = {NewArtist(1, NULL, Bob), NewArtist(2, NULL, Mub),
                              NewArtist(3, <<"A2">>, bob)}]

MainStep(rec) ==
    /\ last' = rec
    /\ UNCHANGED <<packs, tracks, track_artists, pack_tracks, nextId, ops, pre, added>>

Exit(code) == [last EXCEPT !.pc = "exit", !.exit = <<code>>, !.ok = (code = 0)]

\* if len(sys.argv) < 2: sys.exit(1); then read the CSV, sys.exit(1) when
\* reading raises
ReadCsv ==
    /\ last.pc = "argv"
    /\ UNCHANGED artists
    /\ IF ~last.argv THEN MainStep(Exit(1))
       ELSE LET r == read_enrichment_csv(last.file)
            IN  IF r.err # ""
                THEN MainStep([Exit(1) EXCEPT !.err = r.err])
                ELSE MainStep([last EXCEPT !.pc = "validate", !.read = TRUE,
                                           !.enrichments = r.rows])

\* if not validate_enrichments(enrichments): sys.exit(1)
Validate ==
    /\ last.pc = "validate"
    /\ UNCHANGED artists
    /\ IF validate_enrichments(last.enrichments)
       THEN MainStep([last EXCEPT !.pc = "confirm", !.valid = TRUE])
       ELSE MainStep(Exit(1))

\* response = input(...); if response.lower() != 'y': sys.exit(0)
Confirm ==
    /\ last.pc = "confirm"
    /\ UNCHANGED artists
    /\ \E response \in Responses :
          IF Lower(response) # <<"y">>
          THEN MainStep([Exit(0) EXCEPT !.response = response, !.asked = TRUE])
          ELSE MainStep([last EXCEPT !.pc = "apply", !.response = response,
                                     !.asked = TRUE])

\* updated = apply_enrichments(enrichments), sys.exit(1) when it raises; then
\* the closing statistics, which only read
ApplyCsv ==
    /\ last.pc = "apply"
    /\ \E new \in EnrichedTables(artists, last.enrichments) :
          IF UniqueViolation(new)
          THEN /\ artists' = Rollback(store, [store EXCEPT !.artists = new]).artists
               /\ MainStep([Exit(1) EXCEPT !.invoked = 1, !.err = "unique_violation"])
          ELSE /\ artists' = new
               /\ MainStep([Exit(0) EXCEPT
                               !.invoked = 1,
                               !.updated = Cardinality({a \in artists :
                                              \E i \in DOMAIN last.enrichments :
                                                 last.enrichments[i].artist_id = <<a.id>>})])

NextApply == ReadCsv \/ Validate \/ Confirm \/ ApplyCsv

SpecApply == InitApply /\ [][NextApply]_vars
(***************************************************************************)
(* scrape_channel.py: main(), one video of the channel's list after the    *)
(* other.  Here a pack row carries its description, a sequence of          *)
(* characters; `last' holds the loop's variables.                          *)
(***************************************************************************)
MaxVideos == 2  \* videos listed on the channel page

\* f"https://www.youtube.com/watch?v={video_id}"
VideoUrl(video_id) == <<"v", "=">> \o video_id

\* f"Track list from Track Star episode\n\nSource: {youtube_url}"
PackDescription(youtube_url) == <<"S", "r", "c", ":", " ">> \o youtube_url

\* sub in s, for strings
Contains(s, sub) ==
    \E k \in 1..(Len(s) - Len(sub) + 1) : SubSeq(s, k, k + Len(sub) - 1) = sub

\* video_already_processed(video_url, existing_packs)
video_already_processed(video_url, existing_packs) ==
    \E pack \in existing_packs :
        pack.description # <<>> /\ Contains(pack.description, video_url)

ScrapedPack(id, youtube_url) ==
    [id |-> id, name |-> "Track Star Pack", description |-> PackDescription(youtube_url)]

\* what process_video meets: no description or nothing parsed or found
\* (returns False), an exception before the pack is created, or the tracks
\* found on the catalog, which may hold one track twice
VideoOutcomes ==
    {[kind |-> "nothing", batch |-> <<>>], [kind |-> "raises", batch |-> <<>>]} \cup
    {[kind |-> "found", batch |-> b] :
        b \in {<<Payload("t1", "Song", NoMeta, "arrays", << <<"A1">> >>, <<Bob>>, <<>>)>>,
               <<Payload("t1", "Song", NoMeta, "arrays", << <<"A1">> >>, <<Bob>>, <<>>),
                 Payload("t1", "Song", NoMeta, "arrays", << <<"A1">> >>, <<Bob>>, <<>>)>>}}

VideoIds == {<<"a">>, <<"a", "b">>, <<"c">>}

VideoLists == UNION {[1..n -> {VideoUrl(v) : v \in VideoIds}] : n \in 0..MaxVideos}

\* main() is about to run
Scrape(skip_existing, video_urls) ==
    [op |-> "scrape_channel", ok |-> TRUE, pc |-> "load",
     skip_existing |-> skip_existing, video_urls |-> video_urls,
     existing_packs |-> {}, i |-> 0,
     success |-> 0, skipped |-> 0, failed |-> 0,
     created |-> {}, raised |-> 0, exit |-> NULL]

\* the packs of an earlier run: none, or one made from video "a"
InitScrape ==
    /\ packs \in {{}, {ScrapedPack(1, VideoUrl(<<"a">>))}}
    /\ tracks = {}
    /\ artists = {}
    /\ track_artists = {}
    /\ pack_tracks = {}
    /\ nextId = 1
    /\ ops = 0
    /\ last \in {Scrape(skip_existing, video_urls) :
                    skip_existing \in BOOLEAN, video_urls \in VideoLists}
    /\ added = {}
    /\ pre = EmptyStore

\* existing_packs = get_all_packs(); video_urls = extract_channel_videos(...);
\* if not video_urls: sys.exit(1)
LoadPacks ==
    /\ last.pc = "load"
    /\ last' = IF last.video_urls = <<>>
               THEN [last EXCEPT !.pc = "exit", !.exit = <<1>>, !.ok = FALSE]
               ELSE [last EXCEPT !.pc = "loop", !.existing_packs = packs]
    /\ UNCHANGED <<packs, tracks, artists, track_artists, pack_tracks, nextId,
                   ops, pre, added>>

\* the loop variables after one more video
Counted(result, pack) ==
    [last EXCEPT !.i = @ + 1,
                 !.success = IF result = "success" THEN @ + 1 ELSE @,
                 !.skipped = IF result = "skipped" THEN @ + 1 ELSE @,
                 !.failed = IF result \in {"failed", "raised"} THEN @ + 1 ELSE @,
                 !.raised = IF result = "raised" THEN @ + 1 ELSE @,
                 !.created = @ \cup pack,
                 !.pc = IF last.i + 1 = Len(last.video_urls) THEN "done" ELSE "loop"]

\* one pass of `for i, url in enumerate(video_urls, 1)': the skip test, then
\* process_video inside try / except Exception
ProcessVideo ==
    /\ last.pc = "loop"
    /\ UNCHANGED <<ops, pre, added>>
    /\ LET url == last.video_urls[last.i + 1]
           pack_id == Cardinality(packs) + 1
           made == {[url |-> url, pack_id |-> pack_id]}
           s1 == [store EXCEPT !.packs = packs \cup {ScrapedPack(pack_id, url)}]
       IN  IF last.skip_existing /\ video_already_processed(url, last.existing_packs)
           THEN /\ last' = Counted("skipped", {})
                /\ UNCHANGED <<packs, tracks, artists, track_artists, pack_tracks, nextId>>
           ELSE \E outcome \in VideoOutcomes :
                  IF outcome.kind = "nothing"
                  THEN /\ last' = Counted("failed", {})
                       /\ UNCHANGED <<packs, tracks, artists, track_artists,
                                      pack_tracks, nextId>>
                  ELSE IF outcome.kind = "raises"
                  THEN /\ last' = Counted("raised", {})
                       /\ UNCHANGED <<packs, tracks, artists, track_artists,
                                      pack_tracks, nextId>>
                  ELSE IF TrackUpsertFails(outcome.batch)
                  THEN \* create_pack has committed; add_tracks_to_pack rolls back
                       /\ packs' = Rollback(s1, s1).packs
                       /\ last' = Counted("raised", made)
                       /\ UNCHANGED <<tracks, artists, track_artists, pack_tracks, nextId>>
                  ELSE \E o \in AddedTracks(s1, nextId, pack_id, outcome.batch) :
                       /\ packs' = o.store.packs
                       /\ tracks' = o.store.tracks
                       /\ artists' = o.store.artists
                       /\ track_artists' = o.store.track_artists
                       /\ pack_tracks' = o.store.pack_tracks
                       /\ nextId' = o.next
                       /\ last' = Counted("success", made)

NextScrape == LoadPacks \/ ProcessVideo

SpecScrape == InitScrape /\ [][NextScrape]_vars
(***************************************************************************)
(* Copying a pack: get_pack_tracks and the pack-generation scripts, which  *)
(* create a pack and pass the dicts get_pack_tracks returned to            *)
(* add_tracks_to_pack.                                                     *)
(***************************************************************************)
UnknownArtist ==
    <<"U", "n", "k", "n", "o", "w", "n", " ", "A", "r", "t", "i", "s", "t">>

\* the rows of S in the orders ORDER BY position can return them
OrdersByPosition(S) ==
    {f \in [1..Cardinality(S) -> S] :
        \A i, j \in 1..Cardinality(S) :
            i < j => f[i] # f[j] /\ f[i].position <= f[j].position}

\* STRING_AGG(a.name, ', ' ORDER BY ta.position) over the join of the track
\* with its artists and their unnested genres: a name stands once for each
\* genre of the artist, once when the artist has none
AggregatedNames(s, track_id) ==
    LET links == {l \in s.track_artists : l.track_id = track_id}
        artist(l) == CHOOSE a \in s.artists : a.id = l.artist_id
        copies(l) == IF artist(l).genres = <<>> THEN 1 ELSE Len(artist(l).genres)
    IN  {JoinNames(Flatten([i \in 1..Len(o) |->
                               [c \in 1..copies(o[i]) |-> artist(o[i]).name]])) :
            o \in OrdersByPosition(links)}

\* one dict of get_pack_tracks: no 'album_image_url', 'artist_ids' or
\* 'artist_names' key; 'artist' is row[8] or 'Unknown Artist'
TrackDict(t, names) ==
    Payload(t.spotify_id, t.title,
            [f \in OptFields |-> IF f = "album_image_url" THEN NULL ELSE t[f]],
            "legacy", <<>>, <<>>,
            IF names = <<>> THEN UnknownArtist ELSE names)

\* get_pack_tracks(pack_id): the lists the query can return
get_pack_tracks(s, pack_id) ==
    LET links == {l \in s.pack_tracks : l.pack_id = pack_id}
        track(l) == CHOOSE t \in s.tracks : t.id = l.track_id
        strings == UNION {AggregatedNames(s, l.track_id) : l \in links}
    IN  {[i \in 1..Len(o) |-> TrackDict(track(o[i]), names[o[i].track_id])] :
            o \in OrdersByPosition(links),
            names \in {g \in [{l.track_id : l \in links} -> strings] :
                          \A id \in {l.track_id : l \in links} :
                              g[id] \in AggregatedNames(s, id)}}

MubAndCo == Mub \o <<",", " ">> \o Bob      \* one artist, named "Mub, Bob"

\* payloads of the source pack: one artist, no artist, an artist whose name
\* holds a comma
CopyPayloads ==
    { Payload("t1", "Song", Meta1, "arrays", << <<"A1">> >>, <<Bob>>, <<>>),
      Payload("t2", "Tune", NoMeta, "arrays", <<>>, <<>>, <<>>),
      Payload("t3", "Lied", NoMeta, "arrays", << <<"A2">> >>, <<MubAndCo>>, <<>>) }

CopyBatches == BatchesOf(CopyPayloads)

AddSourceBatch ==
    \E p \in packs, batch \in CopyBatches : add_tracks_to_pack(p.id, batch)

\* tracks = get_pack_tracks(source_pack['id']); pack_id = create_pack(...);
\* add_tracks_to_pack(pack_id, tracks_list)
CopyPack ==
    /\ ops < MaxOps
    /\ Cardinality(packs) < MaxPacks
    /\ \E source_pack \in packs :
       \E tracks_list \in get_pack_tracks(store, source_pack.id) :
          LET pack_id == Cardinality(packs) + 1
              s1 == [store EXCEPT !.packs = packs \cup {[id |-> pack_id, name |-> "Copy"]}]
          IN  /\ tracks_list # <<>>
              /\ \E o \in AddedTracks(s1, nextId, pack_id, tracks_list) :
                    /\ packs' = o.store.packs
                    /\ tracks' = o.store.tracks
                    /\ artists' = o.store.artists
                    /\ track_artists' = o.store.track_artists
                    /\ pack_tracks' = o.store.pack_tracks
                    /\ nextId' = o.next
                    /\ last' = [Returned("copy_pack", <<pack_id, tracks_list>>, o.ret)
                                   EXCEPT !.rerun = FALSE]
                    /\ pre' = store
                    /\ ops' = ops + 1
                    /\ added' = added \cup {<<pack_id, tracks_list[i].spotify_id>> :
                                                i \in DOMAIN tracks_list}

NextCopy == CreatePack \/ AddSourceBatch \/ CopyPack

SpecCopy == Init /\ [][NextCopy]_vars
(***************************************************************************)
(* get_db_connection (scripts/utils/db.py), one `with get_db_connection()  *)
(* as conn:' block after the other, statement by statement.  `last' holds  *)
(* the position in the block and the calls made on the connection so far;  *)
(* the body is the INSERT of create_pack, seen by the store at the commit.  *)
(***************************************************************************)
BodyErrors == {"KeyError", "IntegrityError"}    \* subclasses of Exception
Interrupts == {"KeyboardInterrupt"}             \* BaseException only
CommitErrors == {"OperationalError"}

\* the block is about to be entered for the use-th time
Block(use) ==
    [op |-> "get_db_connection", ok |-> TRUE, pc |-> "enter", use |-> use,
     database_url |-> TRUE, opened |-> 0, commits |-> 0, rollbacks |-> 0,
     closes |-> 0, txn |-> "none", body |-> "", caught |-> "", err |-> "",
     written |-> {}]

InitConn ==
    /\ packs = {}
    /\ tracks = {}
    /\ artists = {}
    /\ track_artists = {}
    /\ pack_tracks = {}
    /\ nextId = 1
    /\ ops = 0
    /\ last = Block(0)
    /\ added = {}
    /\ pre = EmptyStore

Step(rec) ==
    /\ last' = rec
    /\ UNCHANGED <<tracks, artists, track_artists, pack_tracks, nextId, added>>

\* database_url = os.getenv('DATABASE_URL'); if not database_url: raise ValueError
Getenv ==
    /\ last.pc \in {"enter", "done"}
    /\ ops < MaxOps
    /\ ops' = ops + 1
    /\ pre' = store
    /\ UNCHANGED packs
    /\ \E url \in BOOLEAN :
          Step([Block(ops + 1) EXCEPT
                   !.database_url = url,
                   !.pc = IF url THEN "connect" ELSE "done",
                   !.ok = url,
                   !.err = IF url THEN "" ELSE "ValueError"])

\* conn = psycopg2.connect(database_url), which may raise
Connect ==
    /\ last.pc = "connect"
    /\ UNCHANGED <<packs, ops, pre>>
    /\ \/ Step([last EXCEPT !.opened = @ + 1, !.txn = "open", !.pc = "body",
                            !.written = packs])
       \/ Step([last EXCEPT !.ok = FALSE, !.err = "OperationalError", !.pc = "done"])

\* `except Exception' catches everything but the BaseException-only classes
Caught(e) == e \notin Interrupts

\* variant: the generator resumes after the yield however the body ended
AfterBodyAlwaysCommits(outcome) == "commit"

\* where the generator continues when the body of the with statement ended
AfterBody(outcome) ==
    IF outcome = "returns" THEN "commit"
    ELSE IF Caught(outcome) THEN "except"
    ELSE "finally"

\* yield conn: the body runs; it returns, or raises before or after its INSERT
Body ==
    /\ last.pc = "body"
    /\ UNCHANGED <<packs, ops, pre>>
    /\ \E outcome \in {"returns"} \cup BodyErrors \cup Interrupts :
       \E w \in {last.written} \cup
                {last.written \cup {[id |-> Cardinality(packs) + 1, name |-> name]} :
                    name \in {"Mix", "Hits"}} :
          /\ outcome = "returns" => w # last.written
          /\ Step([last EXCEPT
                      !.body = outcome, !.written = w,
                      !.pc = AfterBody(outcome),
                      !.caught = IF AfterBody(outcome) = "except" THEN outcome ELSE "",
                      !.ok = (outcome = "returns"),
                      !.err = IF AfterBody(outcome) = "finally" THEN outcome ELSE ""])

\* conn.commit(), inside the try block: it may raise
Commit ==
    /\ last.pc = "commit"
    /\ UNCHANGED <<ops, pre>>
    /\ \/ /\ packs' = last.written
          /\ Step([last EXCEPT !.commits = @ + 1, !.txn = "committed",
                               !.pc = "finally"])
       \/ \E e \in CommitErrors :
          /\ UNCHANGED packs
          /\ Step([last EXCEPT !.commits = @ + 1, !.caught = e, !.ok = FALSE,
                               !.pc = "except"])

\* except Exception as e: conn.rollback(); raise e
Except ==
    /\ last.pc = "except"
    /\ UNCHANGED <<packs, ops, pre>>
    /\ Step([last EXCEPT !.rollbacks = @ + 1, !.txn = "rolledback",
                         !.written = packs, !.err = last.caught,
                         !.pc = "finally"])

\* finally: conn.close(); closing discards a transaction that is still open
Finally ==
    /\ last.pc = "finally"
    /\ UNCHANGED <<packs, ops, pre>>
    /\ Step([last EXCEPT !.closes = @ + 1,
                         !.txn = IF @ = "open" THEN "rolledback" ELSE @,
                         !.written = packs,
                         !.pc = "done"])

NextConn == Getenv \/ Connect \/ Body \/ Commit \/ Except \/ Finally

SpecConn == InitConn /\ [][NextConn]_vars
(***************************************************************************)
(* Properties.  `last' and `pre' describe the most recent call, so a       *)
(* statement about "any call" is an invariant over them.                   *)
(***************************************************************************)
AddReturned ==
    last.op = "add_tracks_to_pack" /\ last.ok /\ last.args[2] # <<>>

LastPack == last.args[1]
LastBatch == last.args[2]

\* the rows a payload's track had before / has after the call
StoredBefore(p) == {t \in pre.tracks : t.spotify_id = p.spotify_id}
RowNow(t) == {u \in tracks : u.id = t.id}

\* the internal ids of the track(s) carrying a spotify_id
TrackIds(s) == {t.id : t \in {t \in tracks : t.spotify_id = s}}

\* the artist entries of a batch, as collected
BatchKeys(batch) == {all_artists(batch)[i] : i \in DOMAIN all_artists(batch)}

C2_MergeNeverClobbers ==
    AddReturned =>
        \A i \in DOMAIN LastBatch : \A t \in StoredBefore(LastBatch[i]) :
            /\ RowNow(t) # {}
            /\ \A u \in RowNow(t) : \A f \in OptFields :
                   /\ LastBatch[i][f] = NULL => u[f] = t[f]
                   /\ (LastBatch[i][f] # NULL /\ t[f] = NULL) => u[f] = LastBatch[i][f]

\* release_year 1999 and no image stored, release_year null and image "X"
\* incoming: 1999 and "X" stored afterwards
C2_Witness ==
    /\ AddReturned
    /\ \E i \in DOMAIN LastBatch : \E t \in StoredBefore(LastBatch[i]) :
         \E u \in RowNow(t) :
            /\ t.release_year = <<1999>> /\ t.album_image_url = NULL
            /\ LastBatch[i].release_year = NULL
            /\ LastBatch[i].album_image_url = <<"X">>
            /\ u.release_year = <<1999>> /\ u.album_image_url = <<"X">>

\* C3: whatever write operation ran last, an enrichment field that was
\* stored non-null (genre list: non-empty) before it is still non-null
\* (non-empty) after it.
C3_EnrichmentNeverErased ==
    /\ \A t \in pre.tracks : \A u \in RowNow(t) : \A f \in OptFields :
          t[f] # NULL => u[f] # NULL
    /\ \A a \in pre.artists : \A b \in {b \in artists : b.id = a.id} :
          /\ a.genres # <<>> => b.genres # <<>>
          /\ a.spotify_followers # NULL => b.spotify_followers # NULL

\* C4: at most one track row per spotify_id; a stored track keeps its
\* spotify_id; a track added to k different packs has exactly one track row
\* and exactly k pack_tracks rows.
C4_OneTrackPerSpotifyId ==
    /\ \A t, u \in tracks : t.spotify_id = u.spotify_id => t = u
    /\ \A t \in pre.tracks : \E u \in tracks :
          u.id = t.id /\ u.spotify_id = t.spotify_id
    /\ \A s \in {x[2] : x \in added} :
          /\ Cardinality(TrackIds(s)) = 1
          /\ Cardinality({l \in pack_tracks : l.track_id \in TrackIds(s)})
                = Cardinality({x \in added : x[2] = s})

C4_Witness ==
    \E s \in {x[2] : x \in added} :
        /\ Cardinality({x \in added : x[2] = s}) = 2
        /\ Cardinality({l \in pack_tracks : l.track_id \in TrackIds(s)}) = 2

\* C5: a call that repeats the previous call (same pack, same batch) leaves
\* the track_artists and pack_tracks rows exactly as the first run left them.
C5_RerunKeepsLinks ==
    (AddReturned /\ last.rerun) =>
        /\ track_artists = pre.track_artists
        /\ pack_tracks = pre.pack_tracks

\* C6: a pack_tracks row or a track_artists row, once stored, stays as it is
\* (same pair, same position), each pair is stored once, and no call is
\* rejected for listing an existing pair again.
C6_PositionsNeverChange ==
    /\ pre.pack_tracks \subseteq pack_tracks
    /\ pre.track_artists \subseteq track_artists
    /\ \A l, m \in pack_tracks :
          (l.pack_id = m.pack_id /\ l.track_id = m.track_id) => l = m
    /\ \A l, m \in track_artists :
          (l.track_id = m.track_id /\ l.artist_id = m.artist_id) => l = m
    /\ (last.op = "add_tracks_to_pack" /\ ~last.ok) => last.err # "unique_violation"

\* the last batch listed a linked track at another batch index and a linked
\* artist at another billing index than the stored positions
C6_Witness ==
    /\ AddReturned
    /\ \E i \in DOMAIN LastBatch : \E l \in pre.pack_tracks :
          /\ l.pack_id = LastPack
          /\ l.track_id \in TrackIds(LastBatch[i].spotify_id)
          /\ l.position # i
          /\ l \in pack_tracks
    /\ \E i \in DOMAIN LastBatch : \E r \in pre.track_artists :
          \E j \in DOMAIN ArtistList(LastBatch[i]) : \E a \in artists :
              /\ r.track_id \in TrackIds(LastBatch[i].spotify_id)
              /\ a.id = r.artist_id
              /\ ArtistList(LastBatch[i])[j].sid # NULL
              /\ ArtistList(LastBatch[i])[j].sid = a.spotify_artist_id
              /\ r.position # j
              /\ r \in track_artists

\* C7: when one batch carries an entry with an identifier and, on another
\* track, a name-only entry of the same name up to case, and no such artist
\* was stored before, one artist row results and both tracks are linked to
\* the row that bears the identifier.
C7_IdentifierEntryWins ==
    AddReturned =>
        \A i, j \in DOMAIN LastBatch :
            \A k1 \in {ArtistList(LastBatch[i])[n] : n \in DOMAIN ArtistList(LastBatch[i])} :
            \A k2 \in {ArtistList(LastBatch[j])[n] : n \in DOMAIN ArtistList(LastBatch[j])} :
                (/\ i # j
                 /\ k1.sid # NULL /\ k2.sid = NULL
                 /\ Lower(k1.name) = Lower(k2.name)
                 /\ \A a \in pre.artists :
                       Lower(a.name) # Lower(k1.name) /\ a.spotify_artist_id # k1.sid)
                =>
                (/\ Cardinality({a \in artists : Lower(a.name) = Lower(k1.name)}) = 1
                 /\ \A a \in {a \in artists : a.spotify_artist_id = k1.sid} :
                       \A s \in {LastBatch[i].spotify_id, LastBatch[j].spotify_id} :
                           \E r \in track_artists :
                               r.artist_id = a.id /\ r.track_id \in TrackIds(s))

\* C8: two name-only entries of one batch whose names differ only in letter
\* case, with no artist of that name stored before, leave a single artist row
\* of that name.
C8_CaseVariantsCollapse ==
    AddReturned =>
        \A k1, k2 \in BatchKeys(LastBatch) :
            (/\ k1.sid = NULL /\ k2.sid = NULL
             /\ k1.name # k2.name
             /\ Lower(k1.name) = Lower(k2.name)
             /\ \A a \in pre.artists : Lower(a.name) # Lower(k1.name))
            => Cardinality({a \in artists : Lower(a.name) = Lower(k1.name)}) = 1

\* C9: a name-only artist row is inserted only if no artist stored before the
\* call has the same name up to case.
C9_NameOnlyInsertedOnlyIfNew ==
    AddReturned =>
        \A a \in artists :
            (a.spotify_artist_id = NULL /\ a.id \notin {b.id : b \in pre.artists})
            => \A b \in pre.artists : Lower(b.name) # Lower(a.name)

\* C10 (as stated): the name stored for a known spotify_artist_id is not
\* overwritten by a different payload name.
C10_StoredNameKept ==
    AddReturned =>
        \A a \in pre.artists : \A b \in artists :
            (a.spotify_artist_id # NULL /\ b.id = a.id) => b.name = a.name

\* C10 (amended): after the upsert the row of every spotify_artist_id of the
\* batch carries the name the payload gave, also when another name was stored.
C10_PayloadNameStored ==
    AddReturned =>
        \A k \in BatchKeys(LastBatch) :
            k.sid # NULL =>
                /\ \E a \in artists : a.spotify_artist_id = k.sid
                /\ \A a \in artists : a.spotify_artist_id = k.sid => a.name = k.name

C10_Witness ==
    /\ AddReturned
    /\ \E a \in pre.artists : \E b \in artists : \E k \in BatchKeys(LastBatch) :
          /\ a.spotify_artist_id # NULL
          /\ b.id = a.id
          /\ k.sid = a.spotify_artist_id
          /\ a.name # k.name
          /\ b.name = k.name

\* the billing list of a payload, as a set of indexes / the entry at an index
Entries(p) == DOMAIN ArtistList(p)
Entry(p, j) == ArtistList(p)[j]

\* the track_artists rows the last call created
NewTrackArtists == track_artists \ pre.track_artists

\* C11: each payload entry that carries a spotify_artist_id is linked to the
\* one artist row bearing that identifier, and the row the call creates for
\* that entry never points to another artist, whatever artists share its name.
C11_LinkedByIdentifier ==
    AddReturned =>
        \A i \in DOMAIN LastBatch : \A j \in Entries(LastBatch[i]) :
            LET k == Entry(LastBatch[i], j)
                tids == TrackIds(LastBatch[i].spotify_id)
                hit == {a \in artists : a.spotify_artist_id = k.sid}
            IN  k.sid # NULL =>
                  /\ Cardinality(hit) = 1
                  /\ \A a \in hit : \E r \in track_artists :
                        r.track_id \in tids /\ r.artist_id = a.id
                  /\ \A r \in NewTrackArtists :
                        (r.track_id \in tids /\ r.position = j)
                        => r.artist_id \in {a.id : a \in hit}

\* two artists of one name under different identifiers are stored, and the
\* call linked an entry to the one bearing the entry's identifier
C11_Witness ==
    /\ AddReturned
    /\ \E i \in DOMAIN LastBatch : \E j \in Entries(LastBatch[i]) :
       \E a, b \in artists : \E r \in NewTrackArtists :
          /\ a.name = b.name
          /\ a.spotify_artist_id # NULL /\ b.spotify_artist_id # NULL
          /\ a.spotify_artist_id # b.spotify_artist_id
          /\ Entry(LastBatch[i], j).sid = a.spotify_artist_id
          /\ b \in pre.artists
          /\ r.track_id \in TrackIds(LastBatch[i].spotify_id)
          /\ r.artist_id = a.id /\ r.position = j
\* the artist list of a payload as it stands in the payload: artist_names
\* with the identifiers that go with them, or the trimmed legacy names
PayloadArtists(p) == CollectedKeys(p)

\* two entries name the same artist
SameArtist(k1, k2) ==
    IF k1.sid # NULL /\ k2.sid # NULL THEN k1.sid = k2.sid
    ELSE Lower(k1.name) = Lower(k2.name)

\* an artist row is the artist an entry names
Matches(a, k) ==
    IF k.sid # NULL THEN a.spotify_artist_id = k.sid
    ELSE Lower(a.name) = Lower(k.name)

\* C12: for a track of the batch that had no track_artists row before the
\* call, every artist of the payload's list (at its first mention) has a
\* track_artists row whose position is the artist's 1-based index in the list.
C12_LinkPerListedArtist ==
    AddReturned =>
        \A i \in DOMAIN LastBatch :
            LET p == LastBatch[i]
                tids == TrackIds(p.spotify_id)
                list == PayloadArtists(p)
            IN  (\A r \in pre.track_artists : r.track_id \notin tids) =>
                    \A j \in DOMAIN list :
                        (\A h \in 1..(j - 1) : ~SameArtist(list[h], list[j])) =>
                            \E r \in track_artists : \E a \in artists :
                                /\ r.track_id \in tids
                                /\ r.position = j
                                /\ r.artist_id = a.id
                                /\ Matches(a, list[j])
\* the pack_tracks rows the last call created
NewPackTracks == pack_tracks \ pre.pack_tracks

\* C13: after a call that returned, every track of the batch has one track
\* row and a pack_tracks row for the pack; a pack_tracks row the call created
\* carries the track's 1-based index in the batch, and the call created rows
\* for the tracks of the batch only.
C13_BatchLinkedAtIndex ==
    AddReturned =>
        /\ \A i \in DOMAIN LastBatch :
              LET tids == TrackIds(LastBatch[i].spotify_id)
              IN  /\ Cardinality(tids) = 1
                  /\ \E l \in pack_tracks :
                        l.pack_id = LastPack /\ l.track_id \in tids
                  /\ \A l \in NewPackTracks :
                        l.track_id \in tids => l.position = i
        /\ \A l \in NewPackTracks :
              /\ l.pack_id = LastPack
              /\ \E i \in DOMAIN LastBatch :
                    l.track_id \in TrackIds(LastBatch[i].spotify_id)

\* a batch of two whose first track was linked to the pack before and whose
\* second track is linked by this call, at position 2
C13_Witness ==
    /\ AddReturned
    /\ Len(LastBatch) = 2
    /\ \E l \in pre.pack_tracks :
          l.pack_id = LastPack /\ l.track_id \in TrackIds(LastBatch[1].spotify_id)
    /\ \E l \in NewPackTracks :
          /\ l.track_id \in TrackIds(LastBatch[2].spotify_id)
          /\ l.pack_id = LastPack
          /\ l.position = 2
\* C14: a call of add_tracks_to_pack that raised, at whatever step and also
\* for a dict without a required key, surfaces an error and leaves packs,
\* tracks, artists, track_artists and pack_tracks as they were before it.
C14_AllOrNothing ==
    (last.op = "add_tracks_to_pack" /\ ~last.ok) =>
        /\ last.err # ""
        /\ store = pre

\* the call raised at the artist upsert, after the track upsert had run on
\* a non-empty store
C14_Witness ==
    /\ last.op = "add_tracks_to_pack" /\ ~last.ok
    /\ last.step = 3
    /\ pre.tracks # {}
    /\ store = pre

\* the call raised on a dict without a required key
C14_WitnessMissingKey ==
    /\ last.op = "add_tracks_to_pack" /\ ~last.ok
    /\ last.err = "KeyError"
    /\ pre.tracks # {}
    /\ store = pre

\* C15: a call that repeats the call before it (same pack, same batch) leaves
\* the track rows, artist rows, track_artists rows and pack_tracks rows as the
\* first run left them; in particular it adds no artist row.
C15_RerunChangesNothing ==
    (AddReturned /\ last.rerun) =>
        /\ tracks = pre.tracks
        /\ artists = pre.artists
        /\ track_artists = pre.track_artists
        /\ pack_tracks = pre.pack_tracks
\* the items of the catalog's answer to the last call, as a set
AnswerItems == {last.args[2].items[i] : i \in DOMAIN last.args[2].items}

\* C16: get_best_artist_match returns None when the search gave nothing;
\* else, when some item's name equals the query up to letter case, such an
\* item of the highest follower count among them; else an item of the
\* highest follower count of all.
C16_BestArtistMatch ==
    last.op = "get_best_artist_match" =>
        LET name == last.args[1]
            exact == {a \in AnswerItems : Lower(a.name) = Lower(name)}
            pool == IF exact # {} THEN exact ELSE AnswerItems
        IN  IF AnswerItems = {} THEN last.ret = NULL
            ELSE /\ last.ret # NULL
                 /\ last.ret[1] \in pool
                 /\ \A b \in pool : FollowerTotal(b) <= FollowerTotal(last.ret[1])

\* results [{The Who, 500}, {the who, 900}], query "The Who": the 900 entry
C16_Witness ==
    /\ last.op = "get_best_artist_match"
    /\ last.args[1] = TheWho
    /\ last.args[2].items = <<[name |-> TheWho, followers |-> <<500>>],
                              [name |-> thewho, followers |-> <<900>>]>>
    /\ last.ret = <<[name |-> thewho, followers |-> <<900>>]>>

\* no item matches the query: the most-followed item of all
C16_WitnessFallback ==
    /\ last.op = "get_best_artist_match"
    /\ last.args[1] = Mub
    /\ last.args[2].items = <<[name |-> TheWho, followers |-> <<500>>],
                              [name |-> Bob, followers |-> <<900>>]>>
    /\ last.ret = <<[name |-> Bob, followers |-> <<900>>]>>

\* C17: a metadata request of more than 50 track identifiers, to
\* get_tracks_batch or to fetch_track_metadata_from_spotify, raises an error
\* to the caller (it does not return an empty result) and sends no request
\* to the catalog.
C17_OversizeRejected ==
    (/\ last.op \in {"get_tracks_batch", "fetch_track_metadata_from_spotify"}
     /\ Len(last.args[1]) > 50)
    => /\ ~last.ok
       /\ last.err = "ValueError"
       /\ last.ret = 0

\* 51 identifiers, rejected
C17_Witness ==
    /\ last.op = "fetch_track_metadata_from_spotify"
    /\ Len(last.args[1]) = 51
    /\ ~last.ok
    /\ last.ret = 0

\* 50 identifiers are sent to the catalog
C17_WitnessAtLimit ==
    /\ last.op = "get_tracks_batch"
    /\ Len(last.args[1]) = 50
    /\ last.ok
    /\ last.ret.calls = 1
    /\ Len(last.ret.value) = 50

\* a line is blank: nothing but whitespace
Blank(line) == Strip(line) = <<>>

\* the lines before the first empty line
RECURSIVE UntilEmptyLine(_)
UntilEmptyLine(lines) ==
    IF lines = <<>> \/ Head(lines) = <<>> THEN <<>>
    ELSE <<Head(lines)>> \o UntilEmptyLine(Tail(lines))

RECURSIVE DropLeadingBlank(_)
DropLeadingBlank(lines) ==
    IF lines # <<>> /\ Blank(Head(lines)) THEN DropLeadingBlank(Tail(lines))
    ELSE lines

\* a trimmed line starts with one of the markers of a header or a link
Marked(l) == StartsWith(l, WatchMore) \/ StartsWith(l, Http) \/ StartsWith(l, Hash)

\* the places of " - " in a trimmed line that leave a title before and an
\* artist after the first " - "
TitleArtistAt(l) ==
    {k \in 1..(Len(l) - 2) :
        /\ SubSeq(l, k, k + 2) = Dash
        /\ \A h \in 1..(k - 1) : SubSeq(l, h, h + 2) # Dash
        /\ Strip(SubSeq(l, 1, k - 1)) # <<>>
        /\ Strip(SubSeq(l, k + 3, Len(l))) # <<>>}

\* the (title, artist) pairs of the lines of the form `Title - Artist', in
\* order; marked lines count only if countMarked
RECURSIVE PairsOf(_, _)
PairsOf(lines, countMarked) ==
    IF lines = <<>> THEN <<>>
    ELSE LET l == Strip(Head(lines))
             rest == PairsOf(Tail(lines), countMarked)
         IN  IF TitleArtistAt(l) = {} \/ (Marked(l) /\ ~countMarked) THEN rest
             ELSE LET k == CHOOSE k \in TitleArtistAt(l) : TRUE
                  IN  <<<<Strip(SubSeq(l, 1, k - 1)),
                          Strip(SubSeq(l, k + 3, Len(l)))>>>> \o rest

\* what the last call of parse_track_list returned, as (title, artist) pairs
ReturnedPairs == [i \in DOMAIN last.ret |-> <<last.ret[i].title, last.ret[i].artist>>]

\* C18 (as stated): for a description with a "Track List:" header, the
\* result lists, in order, one (title, artist) pair for each line between
\* the header and the first blank line that has the form `Title - Artist'
\* with non-empty title and artist, split at the first " - ".
C18_OnePairPerLine ==
    (last.op = "parse_track_list" /\ last.args[1] = TrackListHeader) =>
        /\ last.ok
        /\ ReturnedPairs = PairsOf(UntilEmptyLine(last.args[2]), TRUE)

\* C18 (amended): the section starts at the first non-blank line after the
\* header and ends at the first empty line; the result lists, in order, one
\* pair for each line of it that does not start with "Watch more", "http"
\* or "#" and has the form `Title - Artist' with non-empty title and artist,
\* split at the first " - "; without a header the result is empty; the call
\* never raises.
C18_OnePairPerUnmarkedLine ==
    last.op = "parse_track_list" =>
        /\ last.ok
        /\ ReturnedPairs =
              IF last.args[1] = TrackListHeader
              THEN PairsOf(UntilEmptyLine(DropLeadingBlank(last.args[2])), FALSE)
              ELSE <<>>

\* "Track List:\nSong A - Artist A\nbadline\nSong B - Artist B\n\n" yields
\* (Song A, Artist A) and (Song B, Artist B)
C18_Witness ==
    /\ last.op = "parse_track_list"
    /\ last.args = <<TrackListHeader, <<LineA, badline, LineB>>, <<"\n", "\n">> >>
    /\ ReturnedPairs = << <<SongA, ArtistA>>, <<SongB, ArtistB>> >>

\* the k-th smallest element of a set of numbers
KthOf(S, k) == CHOOSE x \in S : Cardinality({y \in S : y < x}) = k - 1

\* C19: search_tracks_batch returns whatever its entries are; the entries
\* that have a title and an artist are searched once each, in input order,
\* the others not at all; the result lists, in input order, the matches of
\* the entries whose search found a track, however the other searches ended.
C19_BadEntriesSkipped ==
    last.op = "search_tracks_batch" =>
        LET entries == last.args[1]
            complete == {i \in DOMAIN entries :
                            /\ entries[i].track.title \notin {NULL, <<"">>}
                            /\ entries[i].track.artist \notin {NULL, <<"">>}}
            found == {i \in complete : entries[i].answer = "found"}
        IN  /\ last.ok
            /\ Len(last.ret.searched) = Cardinality(complete)
            /\ \A k \in DOMAIN last.ret.searched :
                   last.ret.searched[k] = KthOf(complete, k)
            /\ Len(last.ret.value) = Cardinality(found)
            /\ \A k \in DOMAIN last.ret.value :
                   last.ret.value[k].title = entries[KthOf(found, k)].track.title[1]

\* a search that raised ahead of one that found its track
C19_Witness ==
    /\ last.op = "search_tracks_batch"
    /\ Len(last.args[1]) = 2
    /\ last.args[1][1].track = [title |-> <<"Song">>, artist |-> <<"Bob">>]
    /\ last.args[1][1].answer = "raises"
    /\ last.args[1][2].track = [title |-> <<"Tune">>, artist |-> <<"Bob">>]
    /\ last.args[1][2].answer = "found"
    /\ last.ret.searched = <<1, 2>>
    /\ Len(last.ret.value) = 1
    /\ last.ret.value[1].title = "Tune"

\* an entry without artist ahead of one that found its track
C19_WitnessMalformed ==
    /\ last.op = "search_tracks_batch"
    /\ Len(last.args[1]) = 2
    /\ last.args[1][1].track = [title |-> <<"Song">>, artist |-> NULL]
    /\ last.args[1][2].answer = "found"
    /\ last.ret.searched = <<2>>
    /\ Len(last.ret.value) = 1

\* the identifiers of a set of rows
Ids(rows) == {r.id : r \in rows}

\* C20: whatever call ran last (create_pack, add_tracks_to_pack,
\* update_track_metadata, update_tracks_in_db, apply_enrichments; returned or
\* raised), every pack, track and artist stored before it is still stored,
\* and so is every track_artists and pack_tracks row.
C20_NothingDeleted ==
    /\ Ids(pre.packs) \subseteq Ids(packs)
    /\ Ids(pre.tracks) \subseteq Ids(tracks)
    /\ Ids(pre.artists) \subseteq Ids(artists)
    /\ {[track_id |-> r.track_id, artist_id |-> r.artist_id] : r \in pre.track_artists}
          \subseteq {[track_id |-> r.track_id, artist_id |-> r.artist_id] : r \in track_artists}
    /\ {[pack_id |-> r.pack_id, track_id |-> r.track_id] : r \in pre.pack_tracks}
          \subseteq {[pack_id |-> r.pack_id, track_id |-> r.track_id] : r \in pack_tracks}

\* a batch into a pack that held another track before: both are linked now
C20_Witness ==
    /\ AddReturned
    /\ \E l \in pre.pack_tracks :
          /\ l.pack_id = LastPack
          /\ \A i \in DOMAIN LastBatch : l.track_id \notin TrackIds(LastBatch[i].spotify_id)
          /\ l \in pack_tracks
    /\ pack_tracks # pre.pack_tracks

\* a call that raised on a store that holds links
C20_WitnessRaised ==
    /\ ~last.ok
    /\ pre.pack_tracks # {} /\ pre.track_artists # {}
    /\ store = pre

\* C21: a call of add_tracks_to_pack that returned, returned the number of
\* pack_tracks rows it created; for an empty batch it returned 0 and the
\* store is as it was.
C21_ReturnsLinksCreated ==
    (last.op = "add_tracks_to_pack" /\ last.ok) =>
        /\ last.ret = Cardinality(pack_tracks \ pre.pack_tracks)
        /\ (LastBatch = <<>> => last.ret = 0 /\ store = pre)
C22_WitnessCommitRaised ==
    /\ last.pc = "done" /\ last.body = "returns" /\ last.caught = "OperationalError"
    /\ last.commits = 1 /\ last.rollbacks = 1 /\ last.closes = 1

\* DATABASE_URL unset
C22_WitnessNoUrl == last.pc = "done" /\ ~last.database_url /\ last.use = 1

\* the block committed
C22_WitnessCommitted ==
    last.pc = "done" /\ last.txn = "committed" /\ packs # pre.packs
\* the spotify_artist_id column of a list of rows
SpotifyIds(rows) == [i \in 1..Len(rows) |-> rows[i].spotify_artist_id]

\* C23: when deduplicate_enrichment has written its output: the output has
\* exactly one row for each spotify_artist_id of the input, and it is a row of
\* the input; if the input has an 'exact' row for that id the kept row is
\* 'exact' with at least the followers of every 'exact' row of the id,
\* otherwise it has at least the followers of every row of the id; the
\* removed count is input rows minus output rows; and no spotify_artist_id
\* occurs twice in the output (the duplicate check of validate_enrichments).
C23_OneBestRowPerId ==
    (last.op = "deduplicate_enrichment" /\ last.ok) =>
        LET in == last.args[1]
            out == last.ret.rows
            rowsIn == {in[i] : i \in DOMAIN in}
            of(sid) == {e \in rowsIn : e.spotify_artist_id = sid}
            exact(sid) == {e \in of(sid) : e.match_type = "exact"}
        IN  /\ {out[k].spotify_artist_id : k \in DOMAIN out}
                  = {e.spotify_artist_id : e \in rowsIn}
            /\ Len(out) = Cardinality({e.spotify_artist_id : e \in rowsIn})
            /\ \A k \in DOMAIN out :
                  LET r == out[k]
                      sid == r.spotify_artist_id
                  IN  /\ r \in rowsIn
                      /\ Cardinality(of(sid)) > 1 =>
                            IF exact(sid) # {}
                            THEN /\ r.match_type = "exact"
                                 /\ \A c \in exact(sid) : Followers(c) <= Followers(r)
                            ELSE \A c \in of(sid) : Followers(c) <= Followers(r)
            /\ last.ret.removed = Len(in) - Len(out)
            /\ ~HasDuplicates(SpotifyIds(out))

\* three rows of one id, a fuzzy one with more followers than an exact one:
\* the exact row is kept and two rows are removed
C23_Witness ==
    /\ last.op = "deduplicate_enrichment" /\ last.ok
    /\ Len(last.args[1]) = 3 /\ Len(last.ret.rows) = 1 /\ last.ret.removed = 2
    /\ \E i, j \in DOMAIN last.args[1] :
          /\ last.args[1][i].match_type = "fuzzy"
          /\ last.args[1][j].match_type = "exact"
          /\ Followers(last.args[1][i]) > Followers(last.args[1][j])
          /\ last.ret.rows[1] = last.args[1][j]
          /\ Followers(last.args[1][j]) = 5

\* two ids, one of them with two fuzzy rows
C23_WitnessFuzzy ==
    /\ last.op = "deduplicate_enrichment" /\ last.ok
    /\ Len(last.args[1]) = 3 /\ Len(last.ret.rows) = 2 /\ last.ret.removed = 1
    /\ \A i \in DOMAIN last.args[1] : last.args[1][i].match_type = "fuzzy"
    /\ \E k \in DOMAIN last.ret.rows : Followers(last.ret.rows[k]) = 10
\* C24: wherever main() of apply_artist_enrichment stands: if apply_enrichments
\* was invoked, then a path was given, the CSV was read without error, it is
\* non-empty, every row has an artist_id and a spotify_artist_id, no
\* spotify_artist_id occurs twice, and the operator's answer, compared without
\* regard to case, was 'y'; and if it was not invoked the store is as it was
\* when main() started.
C24_ApplyOnlyWhenConfirmed ==
    last.op = "apply_artist_enrichment" =>
        LET rows == last.file.rows
        IN  /\ last.invoked = 1 =>
                  /\ last.argv /\ last.file.status = "ok"
                  /\ \A i \in DOMAIN rows : ~BadInt(rows[i])
                  /\ rows # <<>>
                  /\ \A i \in DOMAIN rows :
                        rows[i].artist_id # <<>> /\ rows[i].spotify_artist_id # <<>>
                  /\ ~HasDuplicates(SpotifyIds(rows))
                  /\ last.asked /\ last.response \in {<<"y">>, <<"Y">>}
            /\ last.invoked = 0 => store = pre
            /\ (last.pc = "exit" /\ last.exit # <<0>>) => store = pre

\* the operator confirmed a valid file and an artist was enriched
C24_Witness ==
    /\ last.op = "apply_artist_enrichment" /\ last.pc = "exit"
    /\ last.invoked = 1 /\ last.exit = <<0>> /\ last.updated = 1
    /\ \E a \in artists : a.id = 1 /\ a.spotify_artist_id = <<"A1">>
                          /\ a.genres = <<<<"r">>, <<"p">>>>
                          /\ a.spotify_followers = <<5>>
    /\ artists # pre.artists

\* a valid file declined at the prompt
C24_WitnessDeclined ==
    /\ last.op = "apply_artist_enrichment" /\ last.pc = "exit"
    /\ last.valid /\ last.asked /\ last.response = <<"n">> /\ last.invoked = 0
    /\ last.exit = <<0>>

\* a file with a spotify_artist_id twice: rejected before the prompt
C24_WitnessInvalid ==
    /\ last.op = "apply_artist_enrichment" /\ last.pc = "exit"
    /\ last.read /\ ~last.valid /\ ~last.asked /\ last.exit = <<1>>
    /\ HasDuplicates(SpotifyIds(last.enrichments))
    /\ \A i \in DOMAIN last.enrichments : last.enrichments[i].artist_id # <<>>

\* apply_enrichments was invoked and raised: nothing written
C24_WitnessApplyRaised ==
    /\ last.op = "apply_artist_enrichment" /\ last.pc = "exit"
    /\ last.invoked = 1 /\ last.err = "unique_violation" /\ last.exit = <<1>>
\* every video handled so far is counted once, and the loop ends only after
\* the last video, whatever raised on the way
C25_EveryVideoCounted ==
    last.op = "scrape_channel" =>
        /\ last.success + last.skipped + last.failed = last.i
        /\ last.pc = "done" => last.i = Len(last.video_urls)
        /\ (last.pc = "loop" /\ last.raised > 0) => last.i < Len(last.video_urls)

\* C25: in scrape_channel's main loop every video handled is counted in
\* exactly one of success, skipped and failed (their sum is the number of
\* videos when the loop is done), an exception does not end the loop, and
\* without --allow-duplicates no pack was created for a video whose URL
\* appears in the description of a pack that existed when it was created,
\* be that a pack of an earlier run or one created earlier in this run.
C25_CountedAndNoDuplicatePack ==
    last.op = "scrape_channel" =>
        /\ C25_EveryVideoCounted
        /\ last.skip_existing =>
              \A c \in last.created :
                  ~\E p \in packs : /\ p.id < c.pack_id
                                    /\ p.description # <<>>
                                    /\ Contains(p.description, c.url)

\* a run that skipped one video and went on after an exception
C25_WitnessCounted ==
    /\ last.op = "scrape_channel" /\ last.pc = "done"
    /\ Len(last.video_urls) = 2 /\ last.skipped = 1 /\ last.raised = 1
\* C26: in every committed state each track_artists row names a stored track
\* and a stored artist, and each pack_tracks row names a stored pack and a
\* stored track; and the rows a returned add_tracks_to_pack call created name
\* the pack it was given, tracks stored under a spotify_id of its batch, and
\* artists stored under an identifier or a name (whatever its case) of its
\* batch.
C26_ReferentialIntegrity ==
    /\ \A l \in track_artists :
          l.track_id \in Ids(tracks) /\ l.artist_id \in Ids(artists)
    /\ \A l \in pack_tracks :
          l.pack_id \in Ids(packs) /\ l.track_id \in Ids(tracks)
    /\ AddReturned =>
          LET batchTracks == UNION {TrackIds(LastBatch[i].spotify_id) :
                                       i \in DOMAIN LastBatch}
              keys == BatchKeys(LastBatch)
              batchArtists ==
                  {a.id : a \in {a \in artists :
                      \E k \in keys : \/ (k.sid # NULL /\ a.spotify_artist_id = k.sid)
                                      \/ Lower(a.name) = Lower(k.name)}}
          IN  /\ \A l \in track_artists \ pre.track_artists :
                    l.track_id \in batchTracks /\ l.artist_id \in batchArtists
              /\ \A l \in pack_tracks \ pre.pack_tracks :
                    l.pack_id = LastPack /\ l.track_id \in batchTracks

\* a call that linked a new track, to its artist and to the pack, in a store
\* that held other tracks and links before
C26_Witness ==
    /\ AddReturned
    /\ pre.pack_tracks # {} /\ pre.track_artists # {}
    /\ \E l \in pack_tracks \ pre.pack_tracks : l.track_id \notin Ids(pre.tracks)
    /\ \E l \in track_artists \ pre.track_artists : l.track_id \notin Ids(pre.tracks)
\* C27: no two pack_tracks rows of one pack have the same position.
C27_PositionsDistinctPerPack ==
    \A l1, l2 \in pack_tracks :
        (l1.pack_id = l2.pack_id /\ l1.position = l2.position) => l1 = l2
\* C28: after a call that returned, every artist entry collected from a
\* payload of the batch (step 2) has a track_artists row from that payload's
\* track to an artist record the entry names; in particular the entries of
\* the names beyond the end of a shorter artist_ids list.
C28_CollectedArtistsLinked ==
    AddReturned =>
        \A i \in DOMAIN LastBatch :
            LET p == LastBatch[i]
                collected == CollectedKeys(p)
            IN  \A j \in DOMAIN collected :
                    \E r \in track_artists : \E a \in artists :
                        /\ r.track_id \in TrackIds(p.spotify_id)
                        /\ r.artist_id = a.id
                        /\ Matches(a, collected[j])
C29_TracksUntouched == last.op = "copy_pack" => tracks = pre.tracks

\* a copy of a pack with tracks
C29_WitnessCopied ==
    /\ last.op = "copy_pack" /\ last.ret = 2
    /\ \E t \in tracks : t.album_image_url # NULL
\* C30: a create_pack call that returned has added one pack record under an
\* identifier no stored pack had, whether or not a pack of that name was
\* stored, and returned that identifier; and an add_tracks_to_pack call that
\* raised has left every pack record stored, the one created just before it
\* included, and has added no pack_tracks row.
C30_PackOutlivesFailedAdd ==
    /\ (last.op = "create_pack" /\ last.ok) =>
          /\ last.ret \notin Ids(pre.packs)
          /\ packs = pre.packs \cup {[id |-> last.ret, name |-> last.args[1]]}
          /\ \A l \in pack_tracks : l.pack_id # last.ret
    /\ (last.op = "add_tracks_to_pack" /\ ~last.ok) =>
          /\ packs = pre.packs
          /\ pack_tracks = pre.pack_tracks

\* the second pack of a name was created, the batch added to it raised after
\* its track upsert, and the pack is stored without any link
C30_Witness ==
    /\ last.op = "add_tracks_to_pack" /\ ~last.ok /\ last.step = 3
    /\ \E p, q \in packs :
          /\ p.id # q.id /\ p.name = q.name
          /\ \A l \in pack_tracks : l.pack_id # q.id
          /\ \E l \in pack_tracks : l.pack_id = p.id
TypeOK == ops \in 0..MaxOps
====
